---- MODULE Spec2Model ----
(***************************************************************************)
(* Transcription core of the podcast transcription server: the provider    *)
(* retry loops (single file and per segment), the bounded worker pool      *)
(* that dispatches the segments of a segmented plan, and the fixed-offset  *)
(* merge of the per-segment results.                                       *)
(*                                                                         *)
(* One step of the model is one run-to-completion turn of the Node.js      *)
(* event loop: a handler runs from the event that resumes it (provider     *)
(* answer, timer) through every promise reaction it triggers, up to the    *)
(* next await on I/O or on a timer.                                        *)
(*                                                                         *)
(* Spec follows stage 2 to the response for plans of up to MaxSegments     *)
(* segments, from the states a preparation ends in whose first codec       *)
(* succeeded.  SpecMerge follows the merge for every answer of the         *)
(* provider.  SpecJob follows the upload handler from the parsed form to   *)
(* the response: preparation, temporary files, request timeout, client     *)
(* abort.  SpecLogs follows the log map shared by the jobs; the pipeline   *)
(* specifications leave the log map aside.                                 *)
(*                                                                         *)
(* The stages around the core have a specification each, over inputs drawn *)
(* from bounded sets: SpecDownload (downloadAudio and its redirects),      *)
(* SpecPrepare (admission of a file by size and the choice of the plan),   *)
(* SpecPrompting (the provider prompt), SpecPost (spell-check and the      *)
(* rendering of the formats).                                              *)
(* SpecCleanup (the deletion of the temporary files at the exits),         *)
(* SpecNaming (the paths of the temporary files of concurrent jobs),       *)
(* SpecLanguage (the language a job reports), SpecSpeakers (the speaker    *)
(* labels).  SpecPool is the worker pool of Spec under the scheduling of   *)
(* the event loop, for the progress of the pool.                           *)
(***************************************************************************)
EXTENDS Integers, Sequences, FiniteSets, TLC

\* ---------------------------------------------------------------- bounds
MaxSegments == 5

\* ------------------------------------------------------ program constants
CONCURRENT_LIMIT == 3
SEGMENT_DURATION == 300
maxRetriesSingle == 5
maxRetriesSegment == 3
MaxDelayMs == 30000
QuotaBaseDelayMs == 5000
DefaultBaseDelayMs == 2000

\* ---------------------------------------------------------------- helpers
Max(a, b) == IF a >= b THEN a ELSE b
Min(a, b) == IF a <= b THEN a ELSE b

RECURSIVE Pow2(_)
Pow2(n) == IF n <= 0 THEN 1 ELSE 2 * Pow2(n - 1)

Range(s) == {s[k] : k \in 1..Len(s)}

\* formatTime(seconds): "MM:SS" with both parts floored; the text is kept as
\* the pair of numbers that padStart prints.
formatTime(seconds) == <<seconds \div 60, seconds % 60>>

\* ------------------------------------------------------ provider answers
\* Segment of a verbose_json answer.  Times are whole seconds.
Sg(s, e, t) == [start |-> s, end |-> e, text |-> t]

\* The answers the provider may give for one audio file.  language "" and
\* segments << >> stand for an absent field.
Responses ==
  { [text |-> "A", language |-> "en", duration |-> 10,
     segments |-> <<Sg(0, 10, "A")>>],
    [text |-> "BC", language |-> "zh", duration |-> 299,
     segments |-> <<Sg(-2, 5, "B"), Sg(5, 12, "C")>>],
    [text |-> "T", language |-> "", duration |-> 7,
     segments |-> << >>],
    [text |-> "D", language |-> "en", duration |-> 320,
     segments |-> <<Sg(310, 320, "D")>>] }

\* The answer explored for the segments while the worker pool runs; every
\* answer of Responses is explored by the single-file path and, for every
\* slice, by the merge (SpecMerge).
PoolResponses == {r \in Responses : r.text = "BC"}

\* The errors a provider call may fail with: an HTTP answer (status > 0) or
\* a transport error (status 0) with the errno of its cause; connMsg says
\* whether the message contains "Connection error".
Err(st, en, cm) == [status |-> st, errno |-> en, connMsg |-> cm]

ProviderErrors ==
  { Err(429, "", FALSE), Err(402, "", FALSE), Err(401, "", FALSE),
    Err(403, "", FALSE), Err(500, "", FALSE),
    Err(0, "ECONNRESET", TRUE), Err(0, "ECONNRESET", FALSE),
    Err(0, "ETIMEDOUT", TRUE) }

detectQuotaErrorRetryPayment(error) ==
  IF error.status = 429 \/ error.status = 402
  THEN [isQuotaError |-> TRUE, errorType |-> "rate_limit", shouldRetry |-> TRUE]
  ELSE IF error.status = 401 \/ error.status = 403
       THEN [isQuotaError |-> TRUE, errorType |-> "authentication", shouldRetry |-> FALSE]
       ELSE [isQuotaError |-> error.status = 0 /\ error.errno = "ECONNRESET" /\ error.connMsg,
             errorType |-> "", shouldRetry |-> TRUE]
detectQuotaError(error) ==
  IF error.status > 0
  THEN CASE error.status = 429 ->
              [isQuotaError |-> TRUE, errorType |-> "rate_limit", shouldRetry |-> TRUE]
         [] error.status = 402 ->
              [isQuotaError |-> TRUE, errorType |-> "payment_required", shouldRetry |-> FALSE]
         [] error.status = 401 ->
              [isQuotaError |-> TRUE, errorType |-> "authentication", shouldRetry |-> FALSE]
         [] error.status = 403 ->
              [isQuotaError |-> TRUE, errorType |-> "forbidden", shouldRetry |-> FALSE]
         [] OTHER ->
              [isQuotaError |-> FALSE, errorType |-> "", shouldRetry |-> TRUE]
  ELSE IF error.errno = "ECONNRESET" /\ error.connMsg
       THEN [isQuotaError |-> TRUE, errorType |-> "connection_reset", shouldRetry |-> TRUE]
       ELSE [isQuotaError |-> FALSE, errorType |-> "", shouldRetry |-> TRUE]

\* ------------------------------------------------------------ retry loop
\* The test that ends the retry loop after a failed attempt.
AttemptsExhaustedOffByOne(retryCount, maxRetries) == retryCount > maxRetries
AttemptsExhausted(retryCount, maxRetries) == retryCount >= maxRetries

\* Wait before the next attempt, in milliseconds.
retryDelayUncapped(error, retryCount) ==
  (IF error.errno = "ECONNRESET" \/ detectQuotaError(error).isQuotaError
   THEN QuotaBaseDelayMs ELSE DefaultBaseDelayMs) * Pow2(retryCount - 1)
retryDelay(error, retryCount) ==
  LET quotaCheck == detectQuotaError(error)
      baseDelay == IF error.errno = "ECONNRESET" \/ quotaCheck.isQuotaError
                   THEN QuotaBaseDelayMs ELSE DefaultBaseDelayMs
  IN Min(baseDelay * Pow2(retryCount - 1), MaxDelayMs)

\* The catch block of one attempt: retryCount is the count before the
\* failure.  outcome "fatal" throws the enhanced error at once, "exhausted"
\* rethrows the provider error, "sleep" waits delay and tries again.
CatchAttempt(error, retryCount, maxRetries) ==
  LET rc == retryCount + 1
      quotaCheck == detectQuotaError(error)
  IN IF quotaCheck.isQuotaError /\ ~quotaCheck.shouldRetry
     THEN [outcome |-> "fatal", retryCount |-> rc, delay |-> 0]
     ELSE IF AttemptsExhausted(rc, maxRetries)
          THEN [outcome |-> "exhausted", retryCount |-> rc, delay |-> 0]
          ELSE [outcome |-> "sleep", retryCount |-> rc,
                delay |-> retryDelay(error, rc)]

\* ------------------------------------------------------------------ merge
EmptyMerged == [text |-> << >>, duration |-> 0, segments |-> << >>,
                totalSegments |-> 0, language |-> ""]

\* One token of the merged text.
Divider(n) == [kind |-> "divider", n |-> n, from |-> <<0, 0>>, to |-> <<0, 0>>, text |-> ""]
Line(s) == [kind |-> "line", n |-> 0, from |-> formatTime(s.start),
            to |-> formatTime(s.end), text |-> s.text]
Raw(t) == [kind |-> "raw", n |-> 0, from |-> <<0, 0>>, to |-> <<0, 0>>, text |-> t]
\* The blank line that closes the block of every merged slice.
SliceEnd == [kind |-> "end", n |-> 0, from |-> <<0, 0>>, to |-> <<0, 0>>, text |-> ""]

\* The map callback that shifts one provider segment.
AdjustSegmentNoClamp(segment, segmentOffset) ==
  [segment EXCEPT !.start = segment.start + segmentOffset,
                  !.end = segment.end + segmentOffset]
AdjustSegment(segment, segmentOffset) ==
  [segment EXCEPT !.start = Max(0, segment.start) + segmentOffset,
                  !.end = Max(0, segment.end) + segmentOffset]

mergeTranscriptionIncrementalWithOffset(currentResult, newTranscription, segmentIndex, totalSegs, segmentOffset, segmentDuration) ==
  LET head == IF totalSegs > 1 THEN <<Divider(segmentIndex)>> ELSE << >>
      adjustedSegments ==
        [k \in 1..Len(newTranscription.segments) |->
           AdjustSegment(newTranscription.segments[k], segmentOffset)]
      body == IF Len(newTranscription.segments) > 0
              THEN [k \in 1..Len(adjustedSegments) |-> Line(adjustedSegments[k])]
              ELSE IF newTranscription.text # ""
                   THEN <<Raw(newTranscription.text)>> ELSE << >>
  IN [text |-> currentResult.text \o head \o body \o <<SliceEnd>>,
      duration |-> currentResult.duration,
      segments |-> currentResult.segments \o adjustedSegments,
      totalSegments |-> segmentIndex,
      language |-> ""]

\* generateJSON: metadata.totalSegments = transcription.totalSegments || 1
JSONMetadataTotalSegments(transcription) ==
  IF transcription.totalSegments = 0 THEN 1 ELSE transcription.totalSegments

\* results.sort((a, b) => a.index - b.index)
RECURSIVE SortResults(_)
SortResultsUnsorted(rs) == rs
SortResults(rs) ==
  IF Len(rs) = 0 THEN << >>
  ELSE LET m == CHOOSE k \in 1..Len(rs) :
                  \A j \in 1..Len(rs) :
                     \/ rs[k].index < rs[j].index
                     \/ (rs[k].index = rs[j].index /\ k <= j)
           rest == [j \in 1..(Len(rs) - 1) |-> IF j < m THEN rs[j] ELSE rs[j + 1]]
       IN <<rs[m]>> \o SortResults(rest)

\* The merge loop over the sorted results.
RECURSIVE MergeLoop(_, _, _, _, _)
MergeLoop(rs, k, mergedResult, cumulativeOffset, totalSegs) ==
  IF k > Len(rs)
  THEN [mergedResult EXCEPT !.duration = cumulativeOffset]
  ELSE IF rs[k].error
       THEN MergeLoop(rs, k + 1, mergedResult,
                      cumulativeOffset + SEGMENT_DURATION, totalSegs)
       ELSE MergeLoop(rs, k + 1,
                      mergeTranscriptionIncrementalWithOffset(
                        mergedResult, rs[k].transcription, rs[k].index + 1,
                        totalSegs, rs[k].index * SEGMENT_DURATION,
                        SEGMENT_DURATION),
                      cumulativeOffset + SEGMENT_DURATION, totalSegs)

MergeResults(rs, totalSegs) ==
  MergeLoop(SortResults(rs), 1, EmptyMerged, 0, totalSegs)

\* ------------------------------------------------------------------ state
VARIABLES
  plan,               \* processedAudio.type: "single" or "segments"
  totalSegments,      \* processedAudio.files.length (0 for a single plan)
  state,              \* job state
  single,             \* retry loop of the single-file path
  seg,                \* per segment: retry loop of processSegmentWithRetry;
                      \* calls counts the provider calls of the running loop
  activePromises,     \* the Set activePromises, as segment numbers (1-based)
  waiters,            \* calls of processWithConcurrencyLimit blocked on
                      \* Promise.race, in the order they started to wait
  results,            \* the array results, in push order
  finalTranscription, \* finalTranscription once transcription is over
  dispatchLog,        \* history: segments in the order of their first call
  lastError,          \* the error caught last by the single-file loop
  tempFiles,          \* the files of the job in the upload and temp areas
  processedFile,      \* processedAudio.file: "" before preparation,
                      \* "original", or the extension of the compressed file
  configIndex,        \* compressAudio: index of the codec attempt running
  response,           \* status of the HTTP response sent, 0 while none
  lateResponses,      \* history: attempts to respond after the headers went
  cancelled,          \* history: the job state in which the client aborted
                      \* the request ("InFlight" when segments were in
                      \* flight), "no" while it has not
  timedOut,           \* history: the request timeout has fired
  transcriptionLogs,  \* the Map transcriptionLogs: episodeId -> entries
  timers,             \* the deletion timers of cleanupLogs that are pending
  logJobs,            \* per job, what it has done to the log map
  download,           \* downloadAudio: the request running, the requests
                      \* issued and the calls of the callback
  prompting,          \* the construction of the provider prompt of one
                      \* request: its fields and the prompt built
  post,               \* spell-check and rendering of one merged transcript:
                      \* the transcript object, the answer of the language
                      \* model and the formats rendered
  prepare,            \* admission and preparation of one audio file: its
                      \* size, the size ffmpeg compresses it to, and what
                      \* the handler decided
  cleanup,            \* the temporary-file cleanup of one exit of a handler
  naming,             \* the clock and, per job, the temporary paths it has taken
  detect,             \* the language of one merged transcript: what the slices reported and what the handler made of it
  diarize             \* the speaker labelling of one list of segments

fileVars == <<tempFiles, processedFile, configIndex>>
httpVars == <<response, lateResponses, cancelled, timedOut>>
poolVars == <<single, seg, activePromises, waiters, results, finalTranscription, dispatchLog, lastError>>

logVars == <<transcriptionLogs, timers, logJobs>>
unitVars == <<download, prepare, prompting, post, cleanup, naming, detect, diarize>>
jobVars == <<plan, totalSegments, state, poolVars, fileVars, httpVars>>
\* What the actions of one stage specification leave alone.
exceptDownload == <<jobVars, logVars, prepare, prompting, post, cleanup, naming, detect, diarize>>
exceptPrepare == <<jobVars, logVars, download, prompting, post, cleanup, naming, detect, diarize>>
exceptPrompting == <<jobVars, logVars, download, prepare, post, cleanup, naming, detect, diarize>>
exceptPost == <<jobVars, logVars, download, prepare, prompting, cleanup, naming, detect, diarize>>
exceptCleanup == <<jobVars, logVars, download, prepare, prompting, post, naming, detect, diarize>>
exceptNaming == <<jobVars, logVars, download, prepare, prompting, post, cleanup, detect, diarize>>
exceptDetect == <<jobVars, logVars, download, prepare, prompting, post, cleanup, naming, diarize>>
exceptDiarize == <<jobVars, logVars, download, prepare, prompting, post, cleanup, naming, detect>>

vars == <<plan, totalSegments, state, single, seg, activePromises, waiters,
          results, finalTranscription, dispatchLog, lastError, fileVars, httpVars,
          logVars, unitVars>>

\* ---------------------------------------------------------------- job log
\* The jobs followed in the log map.
MaxLogJobs == 2
LogJobs == 1..MaxLogJobs

\* new Map(), Map.set, Map.delete, and the read of the polling endpoint.
EmptyMap == [k \in {} |-> << >>]
MapSet(m, k, v) == [x \in DOMAIN m \cup {k} |-> IF x = k THEN v ELSE m[x]]
MapDelete(m, k) == [x \in DOMAIN m \ {k} |-> m[x]]
PollLogs(m, episodeId) == IF episodeId \in DOMAIN m THEN m[episodeId] ELSE << >>

\* if (logs.length > 500) logs.shift()
LogFullOffByOne(length) == length > 501
LogFull(length) == length > 500

\* The same with logs.pop() for logs.shift(): the newest entry is removed.
addTranscriptionLogPop(m, episodeId, entry) ==
  LET m1 == IF episodeId \notin DOMAIN m THEN MapSet(m, episodeId, << >>) ELSE m
      logs == Append(m1[episodeId], entry)
  IN MapSet(m1, episodeId, IF LogFull(Len(logs)) THEN SubSeq(logs, 1, Len(logs) - 1) ELSE logs)
addTranscriptionLog(m, episodeId, entry) ==
  LET m1 == IF episodeId \notin DOMAIN m THEN MapSet(m, episodeId, << >>) ELSE m
      logs == Append(m1[episodeId], entry)
  IN MapSet(m1, episodeId, IF LogFull(Len(logs)) THEN Tail(logs) ELSE logs)

\* A job that has not begun; appended counts its log entries.
NoJob == [phase |-> "idle", episodeId |-> "", appended |-> 0]

\* The log map as the pipeline specifications leave it.
NoLogs ==
  /\ transcriptionLogs = EmptyMap
  /\ timers = {}
  /\ logJobs = [j \in LogJobs |-> NoJob]

\* downloadAudio has not been called.
NoDownload == [phase |-> "idle", redirectCount |-> 0, requests |-> << >>, callbacks |-> << >>]

\* No audio file has arrived.
NoProcessedAudio == [type |-> "none", file |-> "", segmentDuration |-> 0]
NoPrepare == [handler |-> "", size |-> 0, compressedSize |-> 0, phase |-> "idle", processedAudio |-> NoProcessedAudio, status |-> 0, reason |-> ""]

\* A string of keywords as whitespace, then characters that are not
\* whitespace, then whitespace, each given by its length; a prompt as the
\* characters it takes from the start of the trimmed keywords, the separator
\* and the characters it takes from the start of the base prompt.
Str(lead, body, trail) == [lead |-> lead, body |-> body, trail |-> trail]
NoPromptText == [kw |-> 0, sep |-> 0, base |-> 0]
NoPrompting == [handler |-> "", sourceLanguage |-> "", contentType |-> "", keywords |-> Str(0, 0, 0), phase |-> "idle", optimizedPrompt |-> NoPromptText]

\* A text is a sequence of characters; a transcript without a segments field
\* has hasSegments FALSE.  An output is the list of cues and the text a
\* renderer wrote.
NoTranscript == [text |-> << >>, duration |-> 0, hasSegments |-> FALSE, segments |-> << >>]
NoOutput == [rendered |-> FALSE, cues |-> << >>, text |-> << >>]
NoFormats == [txt |-> NoOutput, srt |-> NoOutput, vtt |-> NoOutput, json |-> NoOutput]
NoPost == [phase |-> "idle", given |-> NoTranscript, transcription |-> NoTranscript, answer |-> "none", spellCheckThrew |-> FALSE, handed |-> NoTranscript, formats |-> NoFormats, first |-> NoFormats, failedFormat |-> "none", status |-> 0]

\* No exit of a handler has been taken: exit names the cleanup block, files
\* the files on disk, failing the files whose deletion the file system
\* refuses, attempted the deletions tried in the order of the calls, warned
\* the files whose failure console.warn reported.
NoCleanup == [exit |-> "", type |-> "none", file |-> "", n |-> 0, phase |-> "idle", files |-> {}, failing |-> {}, attempted |-> << >>, warned |-> {}, outcome |-> "", status |-> 0]

\* The jobs whose temporary paths are followed, and the milliseconds of the
\* clock.
MaxNamingJobs == 2
MaxClock == 2
NamingJobs == 1..MaxNamingJobs

\* No request has arrived: now is Date.now(), paths the paths a job uses.
NoNaming == [now |-> 0, jobs |-> [j \in NamingJobs |-> [handler |-> "", phase |-> "idle", paths |-> {}]]]

\* No transcript has been merged: slices holds, per planned slice, the
\* language its answer reported ("" for none, "failed" for a slice without
\* answer), counts the letters of the merged text, language the language
\* field of finalTranscription ("" while it has none), spellCheckLanguage
\* the language handed to the spell-check.
NoCounts == [latin |-> 0, cjk |-> 0, total |-> 0]
NoDetect == [handler |-> "", sourceLanguage |-> "", slices |-> << >>, counts |-> NoCounts, phase |-> "idle", language |-> "", spellCheckLanguage |-> "", responseLanguage |-> ""]

\* No list of segments has arrived for labelling: accepted holds, per
\* segment, whether Math.random() came out above 0.7 when it was drawn.
NoDiarize == [enabled |-> FALSE, segments |-> << >>, phase |-> "idle", accepted |-> << >>, labelled |-> << >>]

\* The stage specifications at rest, as the pipeline specifications leave them.
NoUnits ==
  /\ download = NoDownload
  /\ prepare = NoPrepare
  /\ prompting = NoPrompting
  /\ post = NoPost
  /\ cleanup = NoCleanup
  /\ naming = NoNaming
  /\ detect = NoDetect
  /\ diarize = NoDiarize

\* No error caught yet.
NoError == [status |-> 0, errno |-> "", connMsg |-> FALSE]

Segs == 1..MaxSegments

Idle == [phase |-> "idle", retryCount |-> 0, calls |-> 0, delay |-> 0]
FirstCall == [phase |-> "calling", retryCount |-> 0, calls |-> 1, delay |-> 0]

\* A settled segment: processSegmentWithRetry has returned or thrown, its
\* locals (retryCount, the attempt in progress) are gone.
SettledAs(outcome) == [phase |-> outcome, retryCount |-> 0, calls |-> 0, delay |-> 0]

\* ------------------------------------------------------- temporary files
\* codecConfigs[k].ext of compressAudio (k from 0).
codecExt == <<".mp3", ".mp3", ".m4a", ".ogg", ".wav">>

\* original: audioFile.filepath; compressed: the extensions e for which
\* audio_<timestamp>_compressed<e> exists; segmentDir and its segment files.
NoFiles == [original |-> FALSE, compressed |-> {}, segmentDir |-> FALSE, segments |-> {}]
Uploaded == [NoFiles EXCEPT !.original = TRUE]

\* The cleanup of the success path.  A throw of unlinkSync (file absent)
\* ends the cleanup at that point.
SuccessCleanup(f, type, file) ==
  IF ~f.original THEN f
  ELSE IF type = "single"
       THEN IF file # "original"
            THEN [f EXCEPT !.original = FALSE, !.compressed = @ \ {file}]
            ELSE [f EXCEPT !.original = FALSE]
       ELSE [f EXCEPT !.original = FALSE, !.segments = {}, !.segmentDir = FALSE,
                      !.compressed = @ \ {file}]

\* The cleanup of the catch block of the handler.
CatchCleanup(f, type, file) ==
  IF ~f.original THEN f
  ELSE IF type = "single"
       THEN IF file # "original"
            THEN [f EXCEPT !.original = FALSE, !.compressed = @ \ {file}]
            ELSE [f EXCEPT !.original = FALSE]
       ELSE IF type = "segments"
            THEN [f EXCEPT !.original = FALSE, !.segments = {}, !.segmentDir = FALSE]
            ELSE [f EXCEPT !.original = FALSE]

\* The cleanup of the catch block of processLargeAudio.
LargeAudioCleanup(f) ==
  [f EXCEPT !.compressed = {}, !.segments = {}, !.segmentDir = FALSE]

\* The files when stage 2 begins after a preparation in which the first
\* codec succeeded.
PreparedFiles(type, file, n) ==
  IF file = "original" THEN Uploaded
  ELSE [original |-> TRUE, compressed |-> {file},
        segmentDir |-> type = "segments", segments |-> 1..n]

\* res.status(...).json(...) without a test of res.headersSent: a second
\* send throws and leaves the response as it is.
Send(status) ==
  IF response = 0
  THEN response' = status /\ UNCHANGED lateResponses
  ELSE lateResponses' = lateResponses + 1 /\ UNCHANGED response

Init ==
  /\ plan \in {"single", "segments"}
  /\ totalSegments \in (IF plan = "single" THEN {0} ELSE 1..MaxSegments)
  /\ processedFile \in (IF plan = "single" THEN {"original", ".mp3"} ELSE {".mp3"})
  /\ tempFiles = PreparedFiles(plan, processedFile, totalSegments)
  /\ configIndex = 0
  /\ response = 0
  /\ lateResponses = 0
  /\ cancelled = "no"
  /\ timedOut = FALSE
  /\ NoLogs
  /\ NoUnits
  /\ state = "Preparing"
  /\ single = Idle
  /\ seg = [i \in Segs |-> Idle]
  /\ activePromises = {}
  /\ waiters = << >>
  /\ results = << >>
  /\ finalTranscription = EmptyMerged
  /\ dispatchLog = << >>
  /\ lastError = NoError

\* ------------------------------------------------------------ worker pool
\* while (activePromises.size >= CONCURRENT_LIMIT) await Promise.race(...)
PoolFullOffByOne(active) == Cardinality(active) > CONCURRENT_LIMIT
PoolFull(active) == Cardinality(active) >= CONCURRENT_LIMIT

\* The order in which the blocked calls resume when a raced promise settles:
\* the order in which their Promise.race reactions were registered.
RECURSIVE Reverse(_)
Reverse(s) == IF Len(s) = 0 THEN << >> ELSE Reverse(Tail(s)) \o <<Head(s)>>
WakeOrderLifo(queue) == Reverse(queue)
WakeOrder(queue) == queue

\* Each call in queue, in turn, re-tests the limit: it either starts its
\* segment (the first provider call is issued and the promise is added to
\* activePromises before the next call runs) or waits again.
RECURSIVE Admit(_, _, _, _)
RECURSIVE AdmitDropsBlocked(_, _, _, _)
AdmitDropsBlocked(queue, active, started, waiting) ==
  IF Len(queue) = 0
  THEN [active |-> active, started |-> started, waiting |-> waiting]
  ELSE IF PoolFull(active)
       THEN AdmitDropsBlocked(Tail(queue), active, started, waiting)
       ELSE AdmitDropsBlocked(Tail(queue), active \cup {Head(queue)},
                              Append(started, Head(queue)), waiting)
Admit(queue, active, started, waiting) ==
  IF Len(queue) = 0
  THEN [active |-> active, started |-> started, waiting |-> waiting]
  ELSE IF PoolFull(active)
       THEN Admit(Tail(queue), active, started, Append(waiting, Head(queue)))
       ELSE Admit(Tail(queue), active \cup {Head(queue)},
                  Append(started, Head(queue)), waiting)

\* The job state after the .catch handler of the pool has replaced the
\* rejection of a segment by an error marker.
PoolCatchRethrow(st) == "Failed"
PoolCatch(st) == st

\* A segment settles: its promise leaves activePromises and the blocked
\* calls resume.
SettleKeepsPromise(i, newSeg, newResults, newState) ==
  LET adm == Admit(WakeOrder(waiters), activePromises, << >>, << >>)
  IN /\ seg' = [j \in Segs |->
                  IF j = i THEN newSeg
                  ELSE IF j \in Range(adm.started) THEN FirstCall
                  ELSE seg[j]]
     /\ activePromises' = adm.active
     /\ waiters' = adm.waiting
     /\ dispatchLog' = dispatchLog \o adm.started
     /\ results' = newResults
     /\ state' = newState
Settle(i, newSeg, newResults, newState) ==
  LET adm == Admit(WakeOrder(waiters), activePromises \ {i}, << >>, << >>)
  IN /\ seg' = [j \in Segs |->
                  IF j = i THEN newSeg
                  ELSE IF j \in Range(adm.started) THEN FirstCall
                  ELSE seg[j]]
     /\ activePromises' = adm.active
     /\ waiters' = adm.waiting
     /\ dispatchLog' = dispatchLog \o adm.started
     /\ results' = newResults
     /\ state' = newState

\* --------------------------------------------------------------- actions
\* Stage 2 begins.  Single plan: the first provider call is issued.
\* Segmented plan: the for loop calls processWithConcurrencyLimit for every
\* file, which starts the first segments and leaves the others waiting.
StartTranscription ==
  /\ state = "Preparing"
  /\ state' = "Transcribing"
  /\ IF plan = "single"
     THEN /\ single' = FirstCall
          /\ UNCHANGED <<seg, activePromises, waiters, dispatchLog>>
     ELSE LET adm == Admit([k \in 1..totalSegments |-> k], {}, << >>, << >>)
          IN /\ seg' = [j \in Segs |->
                          IF j \in Range(adm.started) THEN FirstCall ELSE seg[j]]
             /\ activePromises' = adm.active
             /\ waiters' = adm.waiting
             /\ dispatchLog' = adm.started
             /\ UNCHANGED single
  /\ UNCHANGED <<plan, totalSegments, results, finalTranscription>>
  /\ UNCHANGED <<lastError, fileVars, httpVars>>
  /\ UNCHANGED <<logVars, unitVars>>

SegmentSucceeds(i, r) ==
  /\ state = "Transcribing" /\ plan = "segments"
  /\ seg[i].phase = "calling"
  /\ Settle(i, SettledAs("succeeded"),
            Append(results, [index |-> i - 1, error |-> FALSE, transcription |-> r]),
            state)
  /\ UNCHANGED <<plan, totalSegments, single, finalTranscription>>
  /\ UNCHANGED <<lastError, fileVars, httpVars>>
  /\ UNCHANGED <<logVars, unitVars>>

SegmentFails(i, e) ==
  /\ state = "Transcribing" /\ plan = "segments"
  /\ seg[i].phase = "calling"
  /\ LET c == CatchAttempt(e, seg[i].retryCount, maxRetriesSegment)
     IN IF c.outcome = "sleep"
        THEN /\ seg' = [seg EXCEPT ![i] = [@ EXCEPT !.phase = "sleeping",
                                                    !.retryCount = c.retryCount,
                                                    !.delay = c.delay]]
             /\ UNCHANGED <<activePromises, waiters, dispatchLog, results, state>>
        ELSE Settle(i, SettledAs(c.outcome), results, PoolCatch(state))
  /\ UNCHANGED <<plan, totalSegments, single, finalTranscription>>
  /\ UNCHANGED <<lastError, fileVars, httpVars>>
  /\ UNCHANGED <<logVars, unitVars>>

SegmentBackoffElapsed(i) ==
  /\ state = "Transcribing" /\ plan = "segments"
  /\ seg[i].phase = "sleeping"
  /\ seg' = [seg EXCEPT ![i] = [@ EXCEPT !.phase = "calling",
                                         !.calls = @ + 1, !.delay = 0]]
  /\ UNCHANGED <<plan, totalSegments, state, single, activePromises, waiters,
                 results, finalTranscription, dispatchLog>>
  /\ UNCHANGED <<lastError, fileVars, httpVars>>
  /\ UNCHANGED <<logVars, unitVars>>

Settled(i) == seg[i].phase \in {"succeeded", "exhausted", "fatal"}
AllSettledRace == \E i \in 1..totalSegments : Settled(i)
AllSettled == \A i \in 1..totalSegments : Settled(i)

\* Promise.all(allPromises) resolves: sort, merge, set the duration.
MergeSegments ==
  /\ state = "Transcribing" /\ plan = "segments"
  /\ AllSettled
  /\ finalTranscription' = MergeResults(results, totalSegments)
  /\ state' = "PostProcessing"
  /\ UNCHANGED <<plan, totalSegments, single, seg, activePromises, waiters,
                 results, dispatchLog>>
  /\ UNCHANGED <<lastError, fileVars, httpVars>>
  /\ UNCHANGED <<logVars, unitVars>>

\* finalTranscription = transcription: the answer itself, which has no
\* totalSegments field (0 stands for the absent field).
SingleTranscription(r) ==
  [text |-> <<Raw(r.text)>>, duration |-> r.duration, segments |-> r.segments,
   totalSegments |-> 0, language |-> r.language]

SingleSucceeds(r) ==
  /\ state = "Transcribing" /\ plan = "single"
  /\ single.phase = "calling"
  /\ single' = [single EXCEPT !.phase = "succeeded"]
  /\ finalTranscription' = SingleTranscription(r)
  /\ state' = "PostProcessing"
  /\ UNCHANGED <<plan, totalSegments, seg, activePromises, waiters, results,
                 dispatchLog>>
  /\ UNCHANGED <<lastError, fileVars, httpVars>>
  /\ UNCHANGED <<logVars, unitVars>>

\* A thrown error leaves the try block of the handler: the job fails.
SingleFails(e) ==
  /\ state = "Transcribing" /\ plan = "single"
  /\ single.phase = "calling"
  /\ lastError' = e
  /\ LET c == CatchAttempt(e, single.retryCount, maxRetriesSingle)
     IN IF c.outcome = "sleep"
        THEN /\ single' = [single EXCEPT !.phase = "sleeping",
                                         !.retryCount = c.retryCount,
                                         !.delay = c.delay]
             /\ UNCHANGED state
             /\ UNCHANGED <<tempFiles, response, lateResponses>>
        ELSE /\ single' = [single EXCEPT !.phase = c.outcome,
                                         !.retryCount = c.retryCount]
             /\ state' = "Failed"
             /\ tempFiles' = CatchCleanup(tempFiles, plan, processedFile)
             /\ Send(500)
  /\ UNCHANGED <<plan, totalSegments, seg, activePromises, waiters, results,
                 finalTranscription, dispatchLog>>
  /\ UNCHANGED <<processedFile, configIndex, cancelled, timedOut>>
  /\ UNCHANGED <<logVars, unitVars>>

SingleBackoffElapsed ==
  /\ state = "Transcribing" /\ plan = "single"
  /\ single.phase = "sleeping"
  /\ single' = [single EXCEPT !.phase = "calling", !.calls = @ + 1, !.delay = 0]
  /\ UNCHANGED <<plan, totalSegments, state, seg, activePromises, waiters,
                 results, finalTranscription, dispatchLog>>
  /\ UNCHANGED <<lastError, fileVars, httpVars>>
  /\ UNCHANGED <<logVars, unitVars>>

\* Stages 3 and 4 end and the response is sent.
\* The temporary files are deleted first.  When the headers have already
\* been sent, res.json throws inside the try block and the catch block
\* tries to respond once more.
Respond ==
  /\ state = "PostProcessing"
  /\ state' = "Done"
  /\ tempFiles' = SuccessCleanup(tempFiles, plan, processedFile)
  /\ IF response = 0
     THEN response' = 200 /\ UNCHANGED lateResponses
     ELSE lateResponses' = lateResponses + 2 /\ UNCHANGED response
  /\ UNCHANGED <<plan, totalSegments, single, seg, activePromises, waiters,
                 results, finalTranscription, dispatchLog>>
  /\ UNCHANGED <<lastError, processedFile, configIndex, cancelled, timedOut>>
  /\ UNCHANGED <<logVars, unitVars>>

Next ==
  \/ StartTranscription
  \/ \E i \in Segs, r \in PoolResponses : SegmentSucceeds(i, r)
  \/ \E i \in Segs, e \in ProviderErrors : SegmentFails(i, e)
  \/ \E i \in Segs : SegmentBackoffElapsed(i)
  \/ MergeSegments
  \/ \E r \in Responses : SingleSucceeds(r)
  \/ \E e \in ProviderErrors : SingleFails(e)
  \/ SingleBackoffElapsed
  \/ Respond

Spec == Init /\ [][Next]_vars

\* ------------------------------------------------- the worker pool, fair
\* The worker pool of a segmented plan of up to MaxFairSegments segments
\* under the scheduling the event loop gives: a handler whose event has
\* arrived is run, every provider call is answered or fails, every backoff
\* timer fires.
MaxFairSegments == 4

InitPool ==
  /\ Init
  /\ plan = "segments"
  /\ totalSegments <= MaxFairSegments

NextPool ==
  \/ StartTranscription
  \/ \E i \in Segs, r \in PoolResponses : SegmentSucceeds(i, r)
  \/ \E i \in Segs, e \in ProviderErrors : SegmentFails(i, e)
  \/ \E i \in Segs : SegmentBackoffElapsed(i)
  \/ MergeSegments
  \/ Respond

\* Promise.all has resolved and its continuation has not run yet.
MergePending == state = "Transcribing" /\ plan = "segments" /\ AllSettled

\* The scheduling the pool relies on: the handler starts the pool and the
\* response is written once their turn comes; no provider call stays
\* unanswered for ever, no backoff timer stays unfired for ever, and the
\* continuation of Promise.all does not stay pending for ever.
PoolFairness ==
  /\ WF_vars(StartTranscription)
  /\ WF_vars(Respond)
  /\ \A i \in Segs : []<>(seg[i].phase # "calling")
  /\ \A i \in Segs : []<>(seg[i].phase # "sleeping")
  /\ []<>(~MergePending)

SpecPool == InitPool /\ [][NextPool]_vars /\ PoolFairness

\* ------------------------------------------------- the merge on its own
\* The states in which Promise.all resolves, for every mix of answers and
\* failures of up to MaxMergeSlices slices and every order of completion
\* the pool allows: the segment numbered j starts once j - CONCURRENT_LIMIT
\* others have settled, so it is never among the first j - CONCURRENT_LIMIT
\* to settle.
MaxMergeSlices == 3

NoAnswer == [text |-> "", language |-> "", duration |-> 0, segments |-> << >>]

SliceOutcomes ==
  {[phase |-> "succeeded", transcription |-> r] : r \in Responses}
    \cup {[phase |-> p, transcription |-> NoAnswer] : p \in {"exhausted", "fatal"}}

RECURSIVE SeqBy(_, _)
SeqBy(f, S) ==
  IF S = {} THEN << >>
  ELSE LET m == CHOOSE x \in S : \A y \in S : f[x] <= f[y]
       IN <<m>> \o SeqBy(f, S \ {m})

PoolAllows(f, n) == \A j \in 1..n : f[j] > j - CONCURRENT_LIMIT

InitMerge ==
  \E n \in 1..MaxMergeSlices :
    \E o \in [1..n -> SliceOutcomes], f \in Permutations(1..n) :
      /\ PoolAllows(f, n)
      /\ plan = "segments"
      /\ totalSegments = n
      /\ state = "Transcribing"
      /\ single = Idle
      /\ seg = [i \in Segs |-> IF i <= n THEN SettledAs(o[i].phase) ELSE Idle]
      /\ activePromises = {}
      /\ waiters = << >>
      /\ results =
           LET done == SeqBy(f, {i \in 1..n : o[i].phase = "succeeded"})
           IN [k \in 1..Len(done) |->
                 [index |-> done[k] - 1, error |-> FALSE,
                  transcription |-> o[done[k]].transcription]]
      /\ finalTranscription = EmptyMerged
      /\ dispatchLog = [k \in 1..n |-> k]
      /\ lastError = NoError
      /\ processedFile = ".mp3"
      /\ tempFiles = PreparedFiles("segments", ".mp3", n)
      /\ configIndex = 0
      /\ response = 0
      /\ lateResponses = 0
      /\ cancelled = "no"
      /\ timedOut = FALSE
      /\ NoLogs
      /\ NoUnits

NextMerge == MergeSegments \/ Respond

SpecMerge == InitMerge /\ [][NextMerge]_vars


\* ---------------------------------------------------------- the whole job
\* The upload handler from the parsed form to the response, for plans of up
\* to MaxJobSegments segments.
MaxJobSegments == 2

\* Nothing of stage 2 has run.
PoolIdle ==
  /\ single = Idle
  /\ seg = [i \in Segs |-> Idle]
  /\ activePromises = {}
  /\ waiters = << >>
  /\ results = << >>
  /\ finalTranscription = EmptyMerged
  /\ dispatchLog = << >>
  /\ lastError = NoError

InitJob ==
  /\ plan = "none"
  /\ totalSegments = 0
  /\ state = "Received"
  /\ PoolIdle
  /\ tempFiles = Uploaded
  /\ processedFile = ""
  /\ configIndex = 0
  /\ response = 0
  /\ lateResponses = 0
  /\ cancelled = "no"
  /\ timedOut = FALSE
  /\ NoLogs
  /\ NoUnits

Running == state \notin {"Done", "Failed"}

\* The upload is larger than 30 MB or empty: the handler answers and
\* returns, the uploaded file stays where formidable wrote it.
RejectUpload(status) ==
  /\ state = "Received"
  /\ state' = "Failed"
  /\ Send(status)
  /\ UNCHANGED <<plan, totalSegments, poolVars, fileVars, cancelled, timedOut>>
  /\ UNCHANGED <<logVars, unitVars>>

\* validateAndNormalizeAudioFile or validateAudioFileContent throws.
ValidationFails ==
  /\ state = "Received"
  /\ state' = "Failed"
  /\ tempFiles' = [tempFiles EXCEPT !.original = FALSE]
  /\ Send(400)
  /\ UNCHANGED <<plan, totalSegments, poolVars, processedFile, configIndex,
                 cancelled, timedOut>>
  /\ UNCHANGED <<logVars, unitVars>>

\* The file is within the provider limit: it is used as it is.
AcceptSmall ==
  /\ state = "Received"
  /\ state' = "Preparing"
  /\ plan' = "single"
  /\ processedFile' = "original"
  /\ UNCHANGED <<totalSegments, poolVars, tempFiles, configIndex, httpVars>>
  /\ UNCHANGED <<logVars, unitVars>>

\* The file is over the provider limit: processLargeAudio starts
\* compressAudio, which starts the first codec.
AcceptLarge ==
  /\ state = "Received"
  /\ state' = "Compressing"
  /\ configIndex' = 0
  /\ UNCHANGED <<plan, totalSegments, poolVars, tempFiles, processedFile, httpVars>>
  /\ UNCHANGED <<logVars, unitVars>>

\* ffmpeg reports an error for the codec running; partial says whether it
\* had created its output file.  The next codec is started; after the last
\* one compressAudio rejects with a message that names neither ffmpeg nor
\* ENOENT, processLargeAudio cleans up and throws, the handler answers 500.
CodecFails(partial) ==
  /\ state = "Compressing"
  /\ LET ext == codecExt[configIndex + 1]
         f == IF partial THEN [tempFiles EXCEPT !.compressed = @ \cup {ext}]
              ELSE tempFiles
     IN IF configIndex + 1 >= Len(codecExt)
        THEN /\ tempFiles' = LargeAudioCleanup(f)
             /\ state' = "Failed"
             /\ Send(500)
             /\ UNCHANGED configIndex
        ELSE /\ tempFiles' = f
             /\ configIndex' = configIndex + 1
             /\ UNCHANGED <<state, response, lateResponses>>
  /\ UNCHANGED <<plan, totalSegments, poolVars, processedFile, cancelled, timedOut>>
  /\ UNCHANGED <<logVars, unitVars>>

\* The codec running ends: the compressed file is validated and measured.
\* outcome "invalid": the validation throws; "fits": the file is within the
\* provider limit; "large": splitAudio creates the segment directory and
\* starts ffmpeg.
CodecSucceeds(outcome) ==
  /\ state = "Compressing"
  /\ LET ext == codecExt[configIndex + 1]
         f == [tempFiles EXCEPT !.compressed = @ \cup {ext}]
     IN CASE outcome = "invalid" ->
               /\ tempFiles' = LargeAudioCleanup(f)
               /\ state' = "Failed"
               /\ Send(500)
               /\ UNCHANGED <<plan, processedFile>>
          [] outcome = "fits" ->
               /\ tempFiles' = f
               /\ state' = "Preparing"
               /\ plan' = "single"
               /\ processedFile' = ext
               /\ UNCHANGED <<response, lateResponses>>
          [] outcome = "large" ->
               /\ tempFiles' = [f EXCEPT !.segmentDir = TRUE]
               /\ state' = "Splitting"
               /\ processedFile' = ext
               /\ UNCHANGED <<plan, response, lateResponses>>
  /\ UNCHANGED <<totalSegments, poolVars, configIndex, cancelled, timedOut>>
  /\ UNCHANGED <<logVars, unitVars>>

\* ffmpeg has written n segment files; they are validated.
SplitSucceeds(n, valid) ==
  /\ state = "Splitting"
  /\ LET f == [tempFiles EXCEPT !.segments = 1..n]
     IN IF valid
        THEN /\ tempFiles' = f
             /\ state' = "Preparing"
             /\ plan' = "segments"
             /\ totalSegments' = n
             /\ UNCHANGED <<processedFile, response, lateResponses>>
        ELSE /\ tempFiles' = LargeAudioCleanup(f)
             /\ state' = "Failed"
             /\ processedFile' = ""
             /\ Send(500)
             /\ UNCHANGED <<plan, totalSegments>>
  /\ UNCHANGED <<poolVars, configIndex, cancelled, timedOut>>
  /\ UNCHANGED <<logVars, unitVars>>

\* ffmpeg reports an error after it has written the files 1..n; the
\* handler answers 413 when the message names ffmpeg or ENOENT, else 500.
SplitFails(n, status) ==
  /\ state = "Splitting"
  /\ tempFiles' = LargeAudioCleanup([tempFiles EXCEPT !.segments = 1..n])
  /\ state' = "Failed"
  /\ processedFile' = ""
  /\ Send(status)
  /\ UNCHANGED <<plan, totalSegments, poolVars, configIndex, cancelled, timedOut>>
  /\ UNCHANGED <<logVars, unitVars>>

\* process.env.OPENAI_API_KEY is not set: the handler answers and returns
\* before its try block.
MissingApiKey ==
  /\ state = "Preparing"
  /\ state' = "Failed"
  /\ Send(500)
  /\ UNCHANGED <<plan, totalSegments, poolVars, fileVars, cancelled, timedOut>>
  /\ UNCHANGED <<logVars, unitVars>>

\* Stage 3 or 4 throws (speaker labelling, rendering): the catch block of
\* the handler cleans up and answers.
RenderFails ==
  /\ state = "PostProcessing"
  /\ state' = "Failed"
  /\ tempFiles' = CatchCleanup(tempFiles, plan, processedFile)
  /\ Send(500)
  /\ UNCHANGED <<plan, totalSegments, poolVars, processedFile, configIndex,
                 cancelled, timedOut>>
  /\ UNCHANGED <<logVars, unitVars>>

\* The callback of req.setTimeout: it answers 504 unless the headers have
\* been sent, and does nothing else.
RequestTimeout ==
  /\ Running /\ ~timedOut
  /\ timedOut' = TRUE
  /\ response' = IF response = 0 THEN 504 ELSE response
  /\ UNCHANGED <<plan, totalSegments, state, poolVars, fileVars, lateResponses, cancelled>>
  /\ UNCHANGED <<logVars, unitVars>>

\* The client gives the job up by closing the connection.  The handler
\* registers no listener for it.
ClientAborts ==
  /\ Running /\ cancelled = "no"
  /\ cancelled' = IF activePromises # {} THEN "InFlight" ELSE state
  /\ UNCHANGED <<plan, totalSegments, state, poolVars, fileVars, response,
                 lateResponses, timedOut>>
  /\ UNCHANGED <<logVars, unitVars>>

JobSegs == 1..MaxJobSegments

NextJob ==
  \/ \E status \in {400, 413} : RejectUpload(status)
  \/ ValidationFails
  \/ AcceptSmall
  \/ AcceptLarge
  \/ \E partial \in BOOLEAN : CodecFails(partial)
  \/ \E outcome \in {"invalid", "fits", "large"} : CodecSucceeds(outcome)
  \/ \E n \in JobSegs, valid \in BOOLEAN : SplitSucceeds(n, valid)
  \/ \E n \in 0..MaxJobSegments, status \in {413, 500} : SplitFails(n, status)
  \/ MissingApiKey
  \/ StartTranscription
  \/ \E i \in JobSegs, r \in PoolResponses : SegmentSucceeds(i, r)
  \/ \E i \in JobSegs, e \in ProviderErrors : SegmentFails(i, e)
  \/ \E i \in JobSegs : SegmentBackoffElapsed(i)
  \/ MergeSegments
  \/ \E r \in PoolResponses : SingleSucceeds(r)
  \/ \E e \in ProviderErrors : SingleFails(e)
  \/ SingleBackoffElapsed
  \/ Respond
  \/ RenderFails
  \/ RequestTimeout
  \/ ClientAborts

SpecJob == InitJob /\ [][NextJob]_vars


\* -------------------------------------------------------- the log map
\* What the upload handler and the timers do to transcriptionLogs, for
\* MaxLogJobs jobs.  The pipeline of a job appears as LogAppend only.  A job
\* appends up to MaxLogAppends entries; a job running alone appends up to
\* LongRun entries, past the capacity of a buffer.
MaxLogAppends == 2
LongRun == 502

EpisodeIds == {"ep1", "unknown"}

Entry(j, n) == [job |-> j, n |-> n]

InitLogs ==
  /\ plan = "none"
  /\ totalSegments = 0
  /\ state = "Received"
  /\ PoolIdle
  /\ tempFiles = NoFiles
  /\ processedFile = ""
  /\ configIndex = 0
  /\ response = 0
  /\ lateResponses = 0
  /\ cancelled = "no"
  /\ timedOut = FALSE
  /\ NoLogs
  /\ NoUnits

\* The handler is entered: the body of a multipart request carries no
\* episodeId, so the buffer of 'unknown' is replaced by an empty one and the
\* first entry goes there.
JobStart(j) ==
  /\ logJobs[j].phase = "idle"
  /\ \A o \in LogJobs \ {j} : logJobs[o].appended <= MaxLogAppends + 1
  /\ transcriptionLogs' =
       addTranscriptionLog(MapSet(transcriptionLogs, "unknown", << >>),
                           "unknown", Entry(j, 1))
  /\ logJobs' = [logJobs EXCEPT ![j] =
                   [phase |-> "parsing", episodeId |-> "unknown", appended |-> 1]]
  /\ UNCHANGED <<timers, jobVars, unitVars>>

\* The form is parsed: episodeId is the form field, 'unknown' without one.
FormParsed(j, id) ==
  /\ logJobs[j].phase = "parsing"
  /\ logJobs' = [logJobs EXCEPT ![j].phase = "running", ![j].episodeId = id]
  /\ UNCHANGED <<transcriptionLogs, timers, jobVars, unitVars>>

\* A step of the pipeline calls addTranscriptionLog.
LogAppend(j) ==
  /\ logJobs[j].phase = "running"
  /\ \/ logJobs[j].appended < MaxLogAppends
     \/ /\ logJobs[j].appended < LongRun
        /\ \A o \in LogJobs \ {j} : logJobs[o].phase = "idle"
  /\ transcriptionLogs' =
       addTranscriptionLog(transcriptionLogs, logJobs[j].episodeId,
                           Entry(j, logJobs[j].appended + 1))
  /\ logJobs' = [logJobs EXCEPT ![j].appended = @ + 1]
  /\ UNCHANGED <<timers, jobVars, unitVars>>

\* The success path: the last entry, cleanupLogs(episodeId), the response.
JobDone(j) ==
  /\ logJobs[j].phase = "running"
  /\ transcriptionLogs' =
       addTranscriptionLog(transcriptionLogs, logJobs[j].episodeId,
                           Entry(j, logJobs[j].appended + 1))
  /\ timers' = timers \cup {[episodeId |-> logJobs[j].episodeId, by |-> j]}
  /\ logJobs' = [logJobs EXCEPT ![j].phase = "done", ![j].appended = @ + 1]
  /\ UNCHANGED <<jobVars, unitVars>>

\* An early return or the catch block of the handler: the response only.
JobFails(j) ==
  /\ logJobs[j].phase \in {"parsing", "running"}
  /\ logJobs' = [logJobs EXCEPT ![j].phase = "failed"]
  /\ UNCHANGED <<transcriptionLogs, timers, jobVars, unitVars>>

\* Five minutes after cleanupLogs: transcriptionLogs.delete(episodeId).
TimerFires(t) ==
  /\ t \in timers
  /\ timers' = timers \ {t}
  /\ transcriptionLogs' = MapDelete(transcriptionLogs, t.episodeId)
  /\ UNCHANGED <<logJobs, jobVars, unitVars>>

NextLogs ==
  \/ \E j \in LogJobs : JobStart(j)
  \/ \E j \in LogJobs, id \in EpisodeIds : FormParsed(j, id)
  \/ \E j \in LogJobs : LogAppend(j)
  \/ \E j \in LogJobs : JobDone(j)
  \/ \E j \in LogJobs : JobFails(j)
  \/ \E id \in EpisodeIds, j \in LogJobs : TimerFires([episodeId |-> id, by |-> j])

SpecLogs == InitLogs /\ [][NextLogs]_vars


\* ------------------------------------------------------------ downloadAudio
\* The addresses a download may be sent to, and downloadAudio's default for
\* maxRedirects.
MaxUrls == 3
Urls == 1..MaxUrls
maxRedirects == 5

\* if (redirectCount > maxRedirects)
TooManyRedirectsOffByOne(redirectCount) == redirectCount >= maxRedirects
TooManyRedirects(redirectCount) == redirectCount > maxRedirects

\* callback(...): one more call of the completion callback.
Callback(d, result) == [d EXCEPT !.callbacks = Append(@, result)]

\* downloadWithRedirect(currentUrl, redirectCount): the hop-count check, then
\* protocol.get.
downloadWithRedirect(d, currentUrl, redirectCount) ==
  IF TooManyRedirects(redirectCount)
    THEN [Callback(d, "tooManyRedirects") EXCEPT !.phase = "closed", !.redirectCount = redirectCount]
    ELSE [d EXCEPT !.phase = "requesting", !.redirectCount = redirectCount,
                   !.requests = Append(@, currentUrl)]

InitDownload ==
  /\ plan = "none"
  /\ totalSegments = 0
  /\ state = "Received"
  /\ PoolIdle
  /\ tempFiles = NoFiles
  /\ processedFile = ""
  /\ configIndex = 0
  /\ response = 0
  /\ lateResponses = 0
  /\ cancelled = "no"
  /\ timedOut = FALSE
  /\ NoLogs
  /\ NoUnits

\* downloadAudio(url, callback)
DownloadStart(url) ==
  /\ download.phase = "idle"
  /\ download' = downloadWithRedirect(download, url, 0)
  /\ UNCHANGED exceptDownload

\* The response is a 3xx with a Location header (absolute, or relative and
\* resolved against the current address): the next hop.
ResponseRedirects(location) ==
  /\ download.phase = "requesting"
  /\ download' = downloadWithRedirect(download, location, download.redirectCount + 1)
  /\ UNCHANGED exceptDownload

\* The response is neither a redirect with a Location nor a 200.
ResponseNotOk ==
  /\ download.phase = "requesting"
  /\ download' = [Callback(download, "http") EXCEPT !.phase = "closed"]
  /\ UNCHANGED exceptDownload

\* The response is a 200: the body is being read.
ResponseOk ==
  /\ download.phase = "requesting"
  /\ download' = [download EXCEPT !.phase = "receiving"]
  /\ UNCHANGED exceptDownload

\* response.on('end')
ResponseEnd ==
  /\ download.phase = "receiving"
  /\ download' = [Callback(download, "buffer") EXCEPT !.phase = "closed"]
  /\ UNCHANGED exceptDownload

\* response.on('error')
ResponseError ==
  /\ download.phase = "receiving"
  /\ download' = [Callback(download, "responseError") EXCEPT !.phase = "closed"]
  /\ UNCHANGED exceptDownload

\* request.on('error') before a response
RequestError ==
  /\ download.phase = "requesting"
  /\ download' = [Callback(download, "requestError") EXCEPT !.phase = "closed"]
  /\ UNCHANGED exceptDownload

\* request.on('timeout'): the request is destroyed and the callback called;
\* the destroyed request may then emit 'error' (socket hang up), which
\* reaches request.on('error').
DownloadTimeout(hangUp) ==
  /\ download.phase \in {"requesting", "receiving"}
  /\ download' =
       LET d == [Callback(download, "timeout") EXCEPT !.phase = "closed"]
       IN IF hangUp THEN Callback(d, "requestError") ELSE d
  /\ UNCHANGED exceptDownload

NextDownload ==
  \/ \E url \in Urls : DownloadStart(url)
  \/ \E location \in Urls : ResponseRedirects(location)
  \/ ResponseNotOk
  \/ ResponseOk
  \/ ResponseEnd
  \/ ResponseError
  \/ RequestError
  \/ \E hangUp \in BOOLEAN : DownloadTimeout(hangUp)

SpecDownload == InitDownload /\ [][NextDownload]_vars

\* ------------------------------------------------- admission and preparation
\* Sizes are in bytes.  An audio file arrives with a size within SizeSpread
\* bytes of one of the limits of the handlers, or is empty, tiny or far above
\* every limit; ffmpeg compresses it to a size near OPENAI_LIMIT or well
\* below it.
SizeSpread == 1
MiB == 1024 * 1024
maxFileSize == 32 * MiB
UploadSizeLimit == 30 * MiB
OPENAI_LIMIT == 25 * MiB
MinContentSize == 1000
NearLimits == {l + d : l \in {OPENAI_LIMIT, UploadSizeLimit, maxFileSize}, d \in (0 - SizeSpread)..SizeSpread}
Sizes == {0, 999, 40 * MiB} \cup NearLimits
CompressedSizes == {5 * MiB} \cup {OPENAI_LIMIT + d : d \in (0 - SizeSpread)..SizeSpread}
Handlers == {"upload", "url"}

\* res.status(status).json(...) and return, in the preparation of a job.
Reject(p, status, reason) == [p EXCEPT !.phase = "rejected", !.status = status, !.reason = reason]

\* if (audioFile.size > 30 * 1024 * 1024)
OverUploadLimit(size) == size > UploadSizeLimit

\* if (audioFile.size > OPENAI_LIMIT)
NeedsProcessingOffByOne(size) == size >= OPENAI_LIMIT
NeedsProcessing(size) == size > OPENAI_LIMIT

\* if (compressedStats.size <= OPENAI_LIMIT)
CompressedFits(size) == size <= OPENAI_LIMIT

InitPrepare ==
  /\ plan = "none"
  /\ totalSegments = 0
  /\ state = "Received"
  /\ PoolIdle
  /\ tempFiles = NoFiles
  /\ processedFile = ""
  /\ configIndex = 0
  /\ response = 0
  /\ lateResponses = 0
  /\ cancelled = "no"
  /\ timedOut = FALSE
  /\ NoLogs
  /\ diarize = NoDiarize
  /\ detect = NoDetect
  /\ naming = NoNaming
  /\ cleanup = NoCleanup
  /\ download = NoDownload
  /\ prompting = NoPrompting
  /\ post = NoPost
  /\ \E h \in Handlers, size \in Sizes, compressedSize \in CompressedSizes :
       prepare = [NoPrepare EXCEPT !.handler = h, !.size = size, !.compressedSize = compressedSize, !.phase = "received"]

\* form.parse of the upload handler: formidable ends the parse with an error
\* of httpCode 413 once the file exceeds maxFileSize; it may refuse an empty
\* file itself (allowEmptyFiles false), which the handler answers with 400.
FormParse(allowEmptyFiles) ==
  /\ prepare.handler = "upload" /\ prepare.phase = "received"
  /\ prepare' =
       IF prepare.size > maxFileSize THEN Reject(prepare, 413, "tooLarge")
       ELSE IF prepare.size = 0 /\ ~allowEmptyFiles THEN Reject(prepare, 400, "parse")
       ELSE [prepare EXCEPT !.phase = "parsed"]
  /\ UNCHANGED exceptPrepare

\* The size checks of the upload handler.
SizeCheck ==
  /\ prepare.handler = "upload" /\ prepare.phase = "parsed"
  /\ prepare' =
       IF OverUploadLimit(prepare.size) THEN Reject(prepare, 413, "tooLarge")
       ELSE IF prepare.size = 0 THEN Reject(prepare, 400, "empty")
       ELSE [prepare EXCEPT !.phase = "validating"]
  /\ UNCHANGED exceptPrepare

\* The download of the from-url handler has ended and the file is written:
\* its size is read with statSync, no size limit applies.
Downloaded ==
  /\ prepare.handler = "url" /\ prepare.phase = "received"
  /\ prepare' = [prepare EXCEPT !.phase = "validating"]
  /\ UNCHANGED exceptPrepare

\* validateAndNormalizeAudioFile and validateAudioFileContent: a file of less
\* than 1000 bytes fails, any other passes or fails on its extension and
\* signature.
Validate(signatureOk) ==
  /\ prepare.phase = "validating"
  /\ prepare' =
       IF prepare.size < MinContentSize \/ ~signatureOk
         THEN Reject(prepare, 400, "invalid")
         ELSE [prepare EXCEPT !.phase = "admitted"]
  /\ UNCHANGED exceptPrepare

\* if (audioFile.size > OPENAI_LIMIT) processLargeAudio(...) else the
\* original is the single file.
ChoosePlan ==
  /\ prepare.phase = "admitted"
  /\ prepare' =
       IF NeedsProcessing(prepare.size)
         THEN [prepare EXCEPT !.phase = "compressing"]
         ELSE [prepare EXCEPT !.phase = "planned",
                 !.processedAudio = [type |-> "single", file |-> "original", segmentDuration |-> 0]]
  /\ UNCHANGED exceptPrepare

\* processLargeAudio after compressAudio: the compressed file alone when it
\* fits, else its split into segments of 300 seconds.
Compressed ==
  /\ prepare.phase = "compressing"
  /\ prepare' =
       [prepare EXCEPT !.phase = "planned",
          !.processedAudio =
             IF CompressedFits(prepare.compressedSize)
               THEN [type |-> "single", file |-> "compressed", segmentDuration |-> 0]
               ELSE [type |-> "segments", file |-> "compressed", segmentDuration |-> SEGMENT_DURATION]]
  /\ UNCHANGED exceptPrepare

\* processLargeAudio throws: 413 when the message names ffmpeg or ENOENT,
\* else the catch of the handler answers 500.
ProcessingFails(status) ==
  /\ prepare.phase = "compressing"
  /\ prepare' = [prepare EXCEPT !.phase = "failed", !.status = status, !.reason = "processing"]
  /\ UNCHANGED exceptPrepare

NextPrepare ==
  \/ \E allowEmptyFiles \in BOOLEAN : FormParse(allowEmptyFiles)
  \/ SizeCheck
  \/ Downloaded
  \/ \E signatureOk \in BOOLEAN : Validate(signatureOk)
  \/ ChoosePlan
  \/ Compressed
  \/ \E status \in {413, 500} : ProcessingFails(status)

SpecPrepare == InitPrepare /\ [][NextPrepare]_vars

\* ------------------------------------------------------------------ prompt
\* The keywords sent: empty, short, long, and of a trimmed length within
\* KeywordSpread characters of the prompt limit, with and without whitespace
\* around them.
KeywordSpread == 2
PromptLimit == 400
KeywordBodies == {0, 1, 200, 500} \cup {PromptLimit + d : d \in (0 - KeywordSpread)..KeywordSpread}
KeywordLeads == {0, 1, 5}
KeywordTrails == {0, 2}
Languages == {"auto", "zh", "en", "ja"}
ContentTypes == {"podcast", "interview", "lecture", "news"}

\* String.length, String.substring(0, n), String.trim
Length(s) == s.lead + s.body + s.trail
Substring0(s, n) ==
  LET lead == Min(s.lead, n)
      body == Min(s.body, n - lead)
  IN Str(lead, body, Min(s.trail, n - lead - body))
Trim(s) == Str(0, s.body, 0)

\* TranscriptionOptimizer.generateOptimizedPrompt: the length of the prompt
\* of the table, of prompts.zh.podcast for a language or content type the
\* table does not have.
generateOptimizedPrompt(language, contentType) ==
  LET zh == [podcast |-> 51, interview |-> 42, lecture |-> 43]
      en == [podcast |-> 101, interview |-> 93, lecture |-> 81]
  IN IF language \in {"zh", "en"} /\ contentType \in DOMAIN zh
       THEN IF language = "zh" THEN zh[contentType] ELSE en[contentType]
       ELSE zh.podcast

\* The prompt of the from-url handler when the language is detected.
GenericPromptLength == 142

\* keywords as the handler keeps them: the upload handler cuts the field to
\* 400 characters, the from-url handler takes it from the body as it is.
ReceivedKeywords(handler, keywords) ==
  IF handler = "upload" /\ Length(keywords) > 400 THEN Substring0(keywords, 400) ELSE keywords

BasePrompt(handler, sourceLanguage, contentType) ==
  IF handler = "upload"
    THEN generateOptimizedPrompt(IF sourceLanguage = "auto" THEN "zh" ELSE sourceLanguage, contentType)
    ELSE IF sourceLanguage = "auto" THEN GenericPromptLength
         ELSE generateOptimizedPrompt(sourceLanguage, contentType)

\* The merge of keywords and base prompt, the same in both handlers.
OptimizedPrompt(handler, sourceLanguage, contentType, rawKeywords) ==
  LET keywords == ReceivedKeywords(handler, rawKeywords)
      basePrompt == BasePrompt(handler, sourceLanguage, contentType)
      keywordsPart == Trim(keywords).body
      remainingLength == 400 - keywordsPart - 2
  IN IF Length(keywords) > 0 /\ keywordsPart > 0
       THEN IF keywordsPart + 2 + basePrompt > 400
              THEN IF remainingLength > 0
                     THEN [kw |-> keywordsPart, sep |-> 2, base |-> Min(basePrompt, remainingLength)]
                     ELSE [kw |-> Min(keywordsPart, 400), sep |-> 0, base |-> 0]
              ELSE [kw |-> keywordsPart, sep |-> 2, base |-> basePrompt]
       ELSE [kw |-> 0, sep |-> 0, base |-> basePrompt]

InitPrompting ==
  /\ plan = "none"
  /\ totalSegments = 0
  /\ state = "Received"
  /\ PoolIdle
  /\ tempFiles = NoFiles
  /\ processedFile = ""
  /\ configIndex = 0
  /\ response = 0
  /\ lateResponses = 0
  /\ cancelled = "no"
  /\ timedOut = FALSE
  /\ NoLogs
  /\ diarize = NoDiarize
  /\ detect = NoDetect
  /\ naming = NoNaming
  /\ cleanup = NoCleanup
  /\ download = NoDownload
  /\ prepare = NoPrepare
  /\ post = NoPost
  /\ \E h \in Handlers, l \in Languages, c \in ContentTypes :
       \E lead \in KeywordLeads, body \in KeywordBodies, trail \in KeywordTrails :
         prompting = [NoPrompting EXCEPT !.handler = h, !.sourceLanguage = l, !.contentType = c,
                        !.keywords = Str(lead, body, trail), !.phase = "received"]

\* The handler builds the prompt it sends with every provider call.
BuildPrompt ==
  /\ prompting.phase = "received"
  /\ prompting' = [prompting EXCEPT !.phase = "built",
                     !.optimizedPrompt = OptimizedPrompt(prompting.handler, prompting.sourceLanguage,
                                                         prompting.contentType, prompting.keywords)]
  /\ UNCHANGED exceptPrompting

NextPrompting == BuildPrompt

SpecPrompting == InitPrompting /\ [][NextPrompting]_vars

\* ------------------------------------------------- spell-check and rendering
\* Times are in milliseconds.  The characters of a text: "x" a letter, "." a
\* sentence end, " " a space, "N" the word 那個 (two characters), "L" a run
\* of 100 letters, "c" a letter written by the language model, "undefined"
\* alone for a text that is null or missing.
MaxRenderSegments == 2
SegmentLengthMs == 2000
Gaps == {0, 1500}
SegmentTexts == {<<"x">>, <<" ", "x", "x">>, <<"x", "x", ".">>, <<"L", "x">>}
Texts == {<< >>, <<"N", "N", "N">>, <<"x", " ", " ", "x">>}
Durations == {0, 7000}
OutputFormats == <<"txt", "srt", "vtt", "json">>
Undefined == <<"undefined">>
CorrectedText == <<"c", "c">>

\* String.length and String.trim
CharLength(c) == IF c = "N" THEN 2 ELSE IF c = "L" THEN 100 ELSE 1
RECURSIVE TextLength(_)
TextLength(t) == IF t = << >> THEN 0 ELSE CharLength(Head(t)) + TextLength(Tail(t))
RECURSIVE TrimStart(_)
TrimStart(t) == IF t # << >> /\ Head(t) = " " THEN TrimStart(Tail(t)) ELSE t
TrimText(t) == Reverse(TrimStart(Reverse(TrimStart(t))))

\* TranscriptionOptimizer.isSentenceEnd
isSentenceEnd(text) == LET t == TrimText(text) IN t # << >> /\ t[Len(t)] = "."

\* text.replace(/那個那個/g, '那個'): the matches are taken from the left and do
\* not overlap.
RECURSIVE ReplaceRepeated(_)
ReplaceRepeated(t) ==
  IF Len(t) < 2 THEN t
  ELSE IF t[1] = "N" /\ t[2] = "N" THEN <<"N">> \o ReplaceRepeated(SubSeq(t, 3, Len(t)))
  ELSE <<t[1]>> \o ReplaceRepeated(Tail(t))

\* text.replace(/\s+/g, ' ')
RECURSIVE CollapseSpaces(_)
CollapseSpaces(t) ==
  IF Len(t) < 2 THEN t
  ELSE IF t[1] = " " /\ t[2] = " " THEN CollapseSpaces(Tail(t))
  ELSE <<t[1]>> \o CollapseSpaces(Tail(t))

\* TranscriptionOptimizer.postProcessText
postProcessText(text) == TrimText(CollapseSpaces(ReplaceRepeated(text)))

\* TranscriptionOptimizer.intelligentSegmentation: the forEach, with
\* currentSegment as a list of at most one segment.
RECURSIVE SegmentationLoop(_, _, _, _)
SegmentationLoop(segments, k, optimizedSegments, currentSegment) ==
  IF k > Len(segments) THEN optimizedSegments \o currentSegment
  ELSE LET segment == segments[k]
           text == TrimText(segment.text)
       IN IF TextLength(text) < 2
            THEN SegmentationLoop(segments, k + 1, optimizedSegments, currentSegment)
          ELSE IF /\ currentSegment # << >>
                  /\ segment.start - currentSegment[1].end < 1000
                  /\ TextLength(currentSegment[1].text) < 100
                  /\ ~isSentenceEnd(currentSegment[1].text)
            THEN SegmentationLoop(segments, k + 1, optimizedSegments,
                   <<[currentSegment[1] EXCEPT !.text = @ \o <<" ">> \o text,
                                               !.end = segment.end,
                                               !.words = @ \o segment.words]>>)
          ELSE SegmentationLoop(segments, k + 1, optimizedSegments \o currentSegment,
                 <<[segment EXCEPT !.text = text]>>)

intelligentSegmentation(segments) ==
  IF segments = << >> THEN segments ELSE SegmentationLoop(segments, 1, << >>, << >>)

\* formatSRTTime, formatVTTTime and formatTime of TranscriptionFormatter: the
\* numbers printed and the separator before the milliseconds.
formatSRTTime(ms) == [h |-> ms \div 3600000, m |-> (ms % 3600000) \div 60000, s |-> (ms % 60000) \div 1000, ms |-> ms % 1000, sep |-> ","]
formatVTTTime(ms) == [h |-> ms \div 3600000, m |-> (ms % 3600000) \div 60000, s |-> (ms % 60000) \div 1000, ms |-> ms % 1000, sep |-> "."]
formatTimeMs(ms) == [h |-> 0, m |-> ms \div 60000, s |-> (ms % 60000) \div 1000, ms |-> 0, sep |-> ""]

Output(cues, text) == [rendered |-> TRUE, cues |-> cues, text |-> text]
Cue(index, start, end, text) == [index |-> index, start |-> start, end |-> end, text |-> text]
NoSegments(transcription) == ~transcription.hasSegments \/ transcription.segments = << >>

\* generatePlainSRT and generatePlainVTT: one cue from 0 to duration || 60.
generatePlainSRT(text, duration) ==
  <<Cue(1, formatSRTTime(0), formatSRTTime(IF duration = 0 THEN 60000 ELSE duration), text)>>
generatePlainVTT(text, duration) ==
  <<Cue(0, formatVTTTime(0), formatVTTTime(IF duration = 0 THEN 60000 ELSE duration), text)>>

generateSRT(transcription) ==
  IF NoSegments(transcription)
    THEN Output(generatePlainSRT(transcription.text, transcription.duration), << >>)
    ELSE Output([k \in 1..Len(transcription.segments) |->
                   LET segment == transcription.segments[k]
                   IN Cue(k, formatSRTTime(segment.start), formatSRTTime(segment.end), TrimText(segment.text))],
                << >>)

\* The header WEBVTT is the text of the output.
generateVTT(transcription) ==
  IF NoSegments(transcription)
    THEN Output(generatePlainVTT(transcription.text, transcription.duration), <<"WEBVTT">>)
    ELSE Output([k \in 1..Len(transcription.segments) |->
                   LET segment == transcription.segments[k]
                   IN Cue(0, formatVTTTime(segment.start), formatVTTTime(segment.end), TrimText(segment.text))],
                <<"WEBVTT">>)

\* generateJSON: segments?.map(...) || [], times as they are.
generateJSON(transcription) ==
  Output(IF ~transcription.hasSegments THEN << >>
         ELSE [k \in 1..Len(transcription.segments) |->
                 LET segment == transcription.segments[k]
                 IN [text |-> TrimText(segment.text), start |-> segment.start, end |-> segment.end, words |-> segment.words]],
         transcription.text)

generatePlainText(transcription) ==
  IF NoSegments(transcription) THEN Output(<< >>, transcription.text)
  ELSE Output([k \in 1..Len(transcription.segments) |->
                 LET segment == transcription.segments[k]
                 IN Cue(0, formatTimeMs(segment.start), formatTimeMs(segment.end), TrimText(segment.text))],
              << >>)

Generate(format, transcription) ==
  CASE format = "srt" -> generateSRT(transcription)
    [] format = "vtt" -> generateVTT(transcription)
    [] format = "json" -> generateJSON(transcription)
    [] OTHER -> generatePlainText(transcription)

\* processTranscriptionResult: segments and text are replaced on the object
\* it is given, then the formats are generated in the order asked.  threw
\* names what raised: "segmentation" when a segment has no text to trim, or
\* the format whose generator raised (failing).
processTranscriptionResult(transcription, outputFormats, failing) ==
  LET noText == transcription.hasSegments /\ \E k \in 1..Len(transcription.segments) : transcription.segments[k].text = Undefined
      t1 == IF transcription.hasSegments /\ ~noText
              THEN [transcription EXCEPT !.segments = intelligentSegmentation(@)]
              ELSE transcription
      t2 == IF t1.text # << >> THEN [t1 EXCEPT !.text = postProcessText(@)] ELSE t1
  IN IF noText THEN [threw |-> "segmentation", original |-> transcription, formats |-> NoFormats]
     ELSE IF failing \in Range(outputFormats) THEN [threw |-> failing, original |-> t2, formats |-> NoFormats]
     ELSE [threw |-> "none", original |-> t2,
           formats |-> [f \in DOMAIN NoFormats |-> IF f \in Range(outputFormats) THEN Generate(f, t2) ELSE NoOutput]]

\* The merged transcripts handed to the spell-check: up to MaxRenderSegments
\* segments of two seconds, each after a gap, with one word entry each.
RECURSIVE StartOf(_, _)
StartOf(gap, k) == IF k = 1 THEN gap[1] ELSE StartOf(gap, k - 1) + SegmentLengthMs + gap[k]
SegmentLists ==
  UNION {{[k \in 1..n |-> [start |-> StartOf(gap, k), end |-> StartOf(gap, k) + SegmentLengthMs, text |-> text[k], words |-> <<k>>]] :
            text \in [1..n -> SegmentTexts], gap \in {g \in [1..n -> Gaps] : n = 0 \/ g[1] = 0}} :
         n \in 0..MaxRenderSegments}
Transcripts ==
  {[text |-> t, duration |-> d, hasSegments |-> TRUE, segments |-> l] : t \in Texts, d \in Durations, l \in SegmentLists}
    \cup {[text |-> t, duration |-> d, hasSegments |-> FALSE, segments |-> << >>] : t \in Texts, d \in Durations}

\* What the language model answers to the spell-check.
Answers == {"providerError", "unparsable", "noErrors", "absent", "same", "fewer", "more", "retimed", "nullText", "notArray"}

\* result.correctedSegments of an answer with hasErrors and correctedText.
CorrectedSegments(answer, segments) ==
  LET same == [k \in 1..Len(segments) |-> Sg(segments[k].start, segments[k].end, CorrectedText)]
  IN CASE answer = "same" -> same
       [] answer = "fewer" -> SubSeq(same, 1, Len(same) - 1)
       [] answer = "more" -> same \o <<Sg(90000, 92000, CorrectedText)>>
       [] answer = "retimed" -> [k \in 1..Len(same) |-> Sg(same[k].start + 500, same[k].end + 500, CorrectedText)]
       [] answer = "nullText" -> [k \in 1..Len(same) |-> Sg(same[k].start, same[k].end, Undefined)]
       [] OTHER -> << >>

\* correctedSegments.map((seg, idx) => ({...(segments[idx] || {}), ...seg, words: segments[idx]?.words || seg.words}))
MergeCorrected(segments, correctedSegments) ==
  [idx \in 1..Len(correctedSegments) |->
     [start |-> correctedSegments[idx].start, end |-> correctedSegments[idx].end,
      text |-> correctedSegments[idx].text,
      words |-> IF idx <= Len(segments) THEN segments[idx].words ELSE << >>]]

\* checkAndCorrectSpelling: it raises when no model answers, when the answer
\* is not JSON, when correctedSegments has a length but no map, and when
\* there are corrected segments for a transcript without a segments field.
checkAndCorrectSpelling(transcription, answer) ==
  LET correctedSegments == CorrectedSegments(answer, transcription.segments)
  IN IF transcription.text = << >> THEN [threw |-> FALSE, transcription |-> transcription]
     ELSE IF answer \in {"providerError", "unparsable", "notArray"} THEN [threw |-> TRUE, transcription |-> transcription]
     ELSE IF answer = "noErrors" THEN [threw |-> FALSE, transcription |-> transcription]
     ELSE IF correctedSegments = << >>
       THEN [threw |-> FALSE, transcription |-> [transcription EXCEPT !.text = CorrectedText]]
     ELSE IF ~transcription.hasSegments THEN [threw |-> TRUE, transcription |-> transcription]
     ELSE [threw |-> FALSE,
           transcription |-> [transcription EXCEPT !.text = CorrectedText,
                                !.segments = MergeCorrected(@, correctedSegments)]]

InitPost ==
  /\ plan = "none"
  /\ totalSegments = 0
  /\ state = "Received"
  /\ PoolIdle
  /\ tempFiles = NoFiles
  /\ processedFile = ""
  /\ configIndex = 0
  /\ response = 0
  /\ lateResponses = 0
  /\ cancelled = "no"
  /\ timedOut = FALSE
  /\ NoLogs
  /\ diarize = NoDiarize
  /\ detect = NoDetect
  /\ naming = NoNaming
  /\ cleanup = NoCleanup
  /\ download = NoDownload
  /\ prepare = NoPrepare
  /\ prompting = NoPrompting
  /\ \E t \in Transcripts : post = [NoPost EXCEPT !.phase = "merged", !.given = t, !.transcription = t]

\* Stage 3 of the handler: the spell-check with its catch.  It asks nothing
\* for a transcript without text.
SpellCheck(answer) ==
  /\ post.phase = "merged"
  /\ LET r == checkAndCorrectSpelling(post.transcription, answer)
     IN post' = [post EXCEPT !.phase = "checked",
                   !.answer = IF post.transcription.text = << >> THEN "notAsked" ELSE answer,
                   !.spellCheckThrew = r.threw,
                   !.transcription = IF r.threw THEN post.transcription ELSE r.transcription]
  /\ UNCHANGED exceptPost

\* Stage 4 of the handler: processTranscriptionResult; what it raises reaches
\* the catch of the handler, which answers 500.
Render(failing) ==
  /\ post.phase = "checked"
  /\ LET r == processTranscriptionResult(post.transcription, OutputFormats, failing)
     IN post' = [post EXCEPT !.phase = IF r.threw = "none" THEN "rendered" ELSE "failed",
                   !.handed = post.transcription,
                   !.transcription = r.original,
                   !.formats = r.formats,
                   !.first = r.formats,
                   !.failedFormat = r.threw,
                   !.status = IF r.threw = "none" THEN 0 ELSE 500]
  /\ UNCHANGED exceptPost

\* processTranscriptionResult applied once more to the object it rendered.
RenderAgain ==
  /\ post.phase = "rendered"
  /\ LET r == processTranscriptionResult(post.transcription, OutputFormats, "none")
     IN post' = [post EXCEPT !.phase = "rerendered", !.transcription = r.original, !.formats = r.formats]
  /\ UNCHANGED exceptPost

\* res.json(...)
RespondRendered ==
  /\ post.phase = "rendered"
  /\ post' = [post EXCEPT !.phase = "done", !.status = 200]
  /\ UNCHANGED exceptPost

NextPost ==
  \/ \E answer \in Answers : SpellCheck(answer)
  \/ \E failing \in {"none"} \cup Range(OutputFormats) : Render(failing)
  \/ RenderAgain
  \/ RespondRendered

SpecPost == InitPost /\ [][NextPost]_vars

\* ------------------------------------------------- cleanup of the exits
\* The segment files a plan may have.
MaxCleanupSegments == 2

\* A temporary file or directory of a job: tempAudioPath or
\* audioFile.filepath, processedAudio.file when it is not the original, the
\* files of processedAudio.files and their directory.
OriginalFile == <<"original", 0>>
CompressedFile == <<"compressed", 0>>
SegmentFile(k) == <<"segment", k>>
SegmentDir == <<"segmentDir", 0>>

\* The files a preparation of the given plan leaves on disk.
FilesOfPlan(type, file, n) ==
  {OriginalFile}
    \cup (IF file = "compressed" THEN {CompressedFile} ELSE {})
    \cup (IF type = "segments" THEN {SegmentFile(k) : k \in 1..n} \cup {SegmentDir} ELSE {})

\* fs.unlinkSync(name): it throws when the file system refuses or the file
\* is absent, and removes the file otherwise.
unlinkSync(c, name) ==
  IF name \in c.failing \/ name \notin c.files
  THEN [threw |-> TRUE, c |-> [c EXCEPT !.attempted = Append(@, name)]]
  ELSE [threw |-> FALSE, c |-> [c EXCEPT !.attempted = Append(@, name), !.files = @ \ {name}]]

\* fs.rmdirSync(segmentDir): it throws also while the directory holds a file.
rmdirSync(c) ==
  IF SegmentDir \in c.failing \/ SegmentDir \notin c.files \/ \E f \in c.files : f[1] = "segment"
  THEN [threw |-> TRUE, c |-> [c EXCEPT !.attempted = Append(@, SegmentDir)]]
  ELSE [threw |-> FALSE, c |-> [c EXCEPT !.attempted = Append(@, SegmentDir), !.files = @ \ {SegmentDir}]]

\* catch (cleanupError) { console.warn(...) } of the outer try.
Warn(c, name) == [c EXCEPT !.warned = @ \cup {name}]

\* processedAudio.files.forEach(file => { try { fs.unlinkSync(file) } catch (e) {} })
RECURSIVE UnlinkSegments(_, _, _)
UnlinkSegments(c, k, n) ==
  IF k > n THEN c ELSE UnlinkSegments(unlinkSync(c, SegmentFile(k)).c, k + 1, n)

\* The files of processedAudio.files, then their directory, each in a try of
\* its own with an empty catch.
RemoveSegments(c) == rmdirSync(UnlinkSegments(c, 1, c.n)).c

\* The outer try of a cleanup block, where the first unlinkSync that throws
\* outside an inner try ends the block: the original first, then the files
\* of the plan.  The catch block of the upload handler does not delete the
\* compressed file of a segmented plan.
CleanupBlock(c, withCompressed) ==
  LET first == unlinkSync(c, OriginalFile)
  IN IF first.threw THEN Warn(first.c, OriginalFile)
     ELSE IF c.type = "single" /\ c.file = "compressed"
     THEN LET second == unlinkSync(first.c, CompressedFile)
          IN IF second.threw THEN Warn(second.c, CompressedFile) ELSE second.c
     ELSE IF c.type = "segments"
     THEN LET c2 == RemoveSegments(first.c)
          IN IF withCompressed /\ c.file = "compressed" /\ CompressedFile \in c2.files
             THEN LET third == unlinkSync(c2, CompressedFile)
                  IN IF third.threw THEN Warn(third.c, CompressedFile) ELSE third.c
             ELSE c2
     ELSE first.c

\* The catch block of the from-url handler: the downloaded file only, when
\* it exists.
UrlCatchCleanup(c) ==
  IF OriginalFile \in c.files
  THEN LET first == unlinkSync(c, OriginalFile)
       IN IF first.threw THEN Warn(first.c, OriginalFile) ELSE first.c
  ELSE c

CleanupExits == {"success", "catch", "urlCatch"}
CleanupPlans == {<<"none", "">>, <<"single", "original">>, <<"single", "compressed">>, <<"segments", "compressed">>}

\* A handler about to leave: on the success path rendering is over, in a
\* catch block an error was caught at any point after the upload, so
\* processedAudio may still be undefined.
InitCleanup ==
  /\ plan = "none"
  /\ totalSegments = 0
  /\ state = "Received"
  /\ PoolIdle
  /\ tempFiles = NoFiles
  /\ processedFile = ""
  /\ configIndex = 0
  /\ response = 0
  /\ lateResponses = 0
  /\ cancelled = "no"
  /\ timedOut = FALSE
  /\ NoLogs
  /\ diarize = NoDiarize
  /\ detect = NoDetect
  /\ naming = NoNaming
  /\ download = NoDownload
  /\ prepare = NoPrepare
  /\ prompting = NoPrompting
  /\ post = NoPost
  /\ \E exit \in CleanupExits, p \in CleanupPlans, n \in 0..MaxCleanupSegments :
       /\ exit = "success" => p[1] # "none"
       /\ (p[1] = "segments") = (n > 0)
       /\ \E failing \in SUBSET FilesOfPlan(p[1], p[2], n) :
            cleanup = [NoCleanup EXCEPT !.exit = exit, !.type = p[1], !.file = p[2], !.n = n, !.phase = "leaving",
                         !.files = FilesOfPlan(p[1], p[2], n), !.failing = failing,
                         !.outcome = IF exit = "success" THEN "Done" ELSE "Failed"]

\* The end of the success path of either handler: cleanup, then res.json.
SuccessExit ==
  /\ cleanup.phase = "leaving"
  /\ cleanup.exit = "success"
  /\ cleanup' = [CleanupBlock(cleanup, TRUE) EXCEPT !.phase = "left", !.status = 200]
  /\ UNCHANGED exceptCleanup

\* The catch block of the upload handler: cleanup, then the error response.
CatchExit ==
  /\ cleanup.phase = "leaving"
  /\ cleanup.exit = "catch"
  /\ cleanup' = [CleanupBlock(cleanup, FALSE) EXCEPT !.phase = "left", !.status = 500]
  /\ UNCHANGED exceptCleanup

\* The catch block of the from-url handler.
UrlCatchExit ==
  /\ cleanup.phase = "leaving"
  /\ cleanup.exit = "urlCatch"
  /\ cleanup' = [UrlCatchCleanup(cleanup) EXCEPT !.phase = "left", !.status = 500]
  /\ UNCHANGED exceptCleanup

NextCleanup == SuccessExit \/ CatchExit \/ UrlCatchExit

SpecCleanup == InitCleanup /\ [][NextCleanup]_vars

\* ------------------------------------------------------- temporary paths
\* A path: its directory (formidable's upload directory or __dirname/temp),
\* the value of Date.now() in its name, the random part (0 without one) and
\* what follows.
Path(dir, stamp, random, rest) == [dir |-> dir, stamp |-> stamp, random |-> random, rest |-> rest]

\* filename of the formidable options: `audio_${Date.now()}${ext}`
UploadPath(now, ext) == Path("upload", now, 0, ext)

\* tempAudioPath: `audio_${Date.now()}_${Math.random().toString(36).substring(7)}.mp3`;
\* the random part is taken to differ between jobs.
TempAudioPath(now, j) == Path("temp", now, j, ".mp3")

\* processLargeAudio: timestamp = Date.now(), baseFilename =
\* `audio_${timestamp}`, from which the compressed path and the segment
\* directory are named.
CompressedPath(timestamp) == Path("temp", timestamp, 0, "_compressed.mp3")
SegmentDirPath(timestamp) == Path("temp", timestamp, 0, "_segments")

UploadExts == {".mp3", ".wav"}

InitNaming ==
  /\ plan = "none"
  /\ totalSegments = 0
  /\ state = "Received"
  /\ PoolIdle
  /\ tempFiles = NoFiles
  /\ processedFile = ""
  /\ configIndex = 0
  /\ response = 0
  /\ lateResponses = 0
  /\ cancelled = "no"
  /\ timedOut = FALSE
  /\ NoLogs
  /\ diarize = NoDiarize
  /\ detect = NoDetect
  /\ download = NoDownload
  /\ prepare = NoPrepare
  /\ prompting = NoPrompting
  /\ post = NoPost
  /\ cleanup = NoCleanup
  /\ naming = NoNaming

\* A millisecond passes.
ClockTick ==
  /\ naming.now < MaxClock
  /\ naming' = [naming EXCEPT !.now = @ + 1]
  /\ UNCHANGED exceptNaming

\* formidable stores the upload of job j under the name its filename option
\* returns.
UploadStored(j, ext) ==
  /\ naming.jobs[j].phase = "idle"
  /\ naming' = [naming EXCEPT !.jobs[j] = [handler |-> "upload", phase |-> "received", paths |-> {UploadPath(naming.now, ext)}]]
  /\ UNCHANGED exceptNaming

\* The from-url handler of job j chooses tempAudioPath.
UrlReceived(j) ==
  /\ naming.jobs[j].phase = "idle"
  /\ naming' = [naming EXCEPT !.jobs[j] = [handler |-> "url", phase |-> "received", paths |-> {TempAudioPath(naming.now, j)}]]
  /\ UNCHANGED exceptNaming

\* processLargeAudio(audioFile, title) of job j up to compressAudio: the
\* compressed path is chosen, and the segment directory is named from the
\* same stamp when the compressed file is split.
ProcessLargeAudio(j, split) ==
  /\ naming.jobs[j].phase = "received"
  /\ LET timestamp == naming.now
     IN naming' = [naming EXCEPT !.jobs[j].phase = "prepared",
                     !.jobs[j].paths = @ \cup {CompressedPath(timestamp)} \cup (IF split THEN {SegmentDirPath(timestamp)} ELSE {})]
  /\ UNCHANGED exceptNaming

\* Job j ends and its cleanup has removed its files.
NamingJobEnds(j) ==
  /\ naming.jobs[j].phase \in {"received", "prepared"}
  /\ naming' = [naming EXCEPT !.jobs[j].phase = "ended", !.jobs[j].paths = {}]
  /\ UNCHANGED exceptNaming

NextNaming ==
  \/ ClockTick
  \/ \E j \in NamingJobs, ext \in UploadExts : UploadStored(j, ext)
  \/ \E j \in NamingJobs : UrlReceived(j)
  \/ \E j \in NamingJobs, split \in BOOLEAN : ProcessLargeAudio(j, split)
  \/ \E j \in NamingJobs : NamingJobEnds(j)

SpecNaming == InitNaming /\ [][NextNaming]_vars

\* ---------------------------------------------- language of the transcript
\* The slices of a segmented plan whose language is followed.
MaxLanguageSlices == 2

\* What a slice may report, the sourceLanguage field of a request, and the
\* merged texts by their counts of Latin letters, of CJK ideographs and of
\* characters.
ReportedLanguages == {"", "en", "zh", "ja"}
SourceLanguages == {"auto", "en", "zh"}
Counts(latin, cjk, total) == [latin |-> latin, cjk |-> cjk, total |-> total]
TextCounts == {Counts(0, 0, 2), Counts(300, 0, 400), Counts(200, 5, 500), Counts(0, 40, 100), Counts(10, 60, 1000), Counts(10, 10, 1000)}

\* The array results at Promise.all: one entry per slice that was answered.
RECURSIVE LanguageResults(_, _)
LanguageResults(slices, k) ==
  IF k > Len(slices) THEN << >>
  ELSE (IF slices[k] = "failed" THEN << >>
        ELSE <<[index |-> k - 1, error |-> FALSE,
                transcription |-> [NoAnswer EXCEPT !.text = "A", !.language = slices[k]]]>>)
       \o LanguageResults(slices, k + 1)

\* The language detection of the from-url handler on the text of the merged
\* transcript.
TextLanguage(c) ==
  LET englishRatioOverHalf == c.total > 0 /\ 2 * c.latin > c.total
      chineseRatioOverThreeTenths == c.total > 0 /\ 10 * c.cjk > 3 * c.total
  IN IF englishRatioOverHalf \/ (c.latin > c.cjk * 2 /\ c.latin > 100) THEN "en"
     ELSE IF chineseRatioOverThreeTenths \/ c.cjk > 50 THEN "zh"
     ELSE "en"

\* detectedLanguage of the from-url handler.
DetectedLanguage(language, sourceLanguage, c) ==
  IF language # "" THEN language
  ELSE IF sourceLanguage # "auto" THEN sourceLanguage
  ELSE TextLanguage(c)

InitLanguage ==
  /\ plan = "none"
  /\ totalSegments = 0
  /\ state = "Received"
  /\ PoolIdle
  /\ tempFiles = NoFiles
  /\ processedFile = ""
  /\ configIndex = 0
  /\ response = 0
  /\ lateResponses = 0
  /\ cancelled = "no"
  /\ timedOut = FALSE
  /\ NoLogs
  /\ diarize = NoDiarize
  /\ download = NoDownload
  /\ prepare = NoPrepare
  /\ prompting = NoPrompting
  /\ post = NoPost
  /\ cleanup = NoCleanup
  /\ naming = NoNaming
  /\ \E h \in Handlers, sl \in SourceLanguages, n \in 1..MaxLanguageSlices, c \in TextCounts :
       \E slices \in [1..n -> ReportedLanguages \cup {"failed"}] :
         \* asked for a language, the provider reports that language
         /\ sl # "auto" => \A k \in 1..n : slices[k] \in {"", sl, "failed"}
         /\ detect = [NoDetect EXCEPT !.handler = h, !.sourceLanguage = sl, !.slices = slices, !.counts = c, !.phase = "transcribed"]

\* Promise.all has resolved: the results are merged and the merged object
\* becomes finalTranscription.
MergeLanguage ==
  /\ detect.phase = "transcribed"
  /\ detect' = [detect EXCEPT !.phase = "merged",
                  !.language = MergeResults(LanguageResults(detect.slices, 1), Len(detect.slices)).language]
  /\ UNCHANGED exceptDetect

\* The from-url handler detects the language, stores it in
\* finalTranscription when that has none, and calls the spell-check with it.
DetectLanguage ==
  /\ detect.phase = "merged"
  /\ detect.handler = "url"
  /\ LET detectedLanguage == DetectedLanguage(detect.language, detect.sourceLanguage, detect.counts)
     IN detect' = [detect EXCEPT !.phase = "checked",
                     !.language = IF detect.language = "" THEN detectedLanguage ELSE @,
                     !.spellCheckLanguage = detectedLanguage]
  /\ UNCHANGED exceptDetect

\* The upload handler calls the spell-check with
\* finalTranscription.language || 'zh' and stores nothing.
SpellCheckLanguage ==
  /\ detect.phase = "merged"
  /\ detect.handler = "upload"
  /\ detect' = [detect EXCEPT !.phase = "checked",
                  !.spellCheckLanguage = IF detect.language # "" THEN detect.language ELSE "zh"]
  /\ UNCHANGED exceptDetect

\* res.json: the upload handler answers language:
\* correctedTranscription.language; the formats of both carry the language
\* of the transcript.
RespondLanguage ==
  /\ detect.phase = "checked"
  /\ detect' = [detect EXCEPT !.phase = "done", !.responseLanguage = detect.language]
  /\ UNCHANGED exceptDetect

NextLanguage == MergeLanguage \/ DetectLanguage \/ SpellCheckLanguage \/ RespondLanguage

SpecLanguage == InitLanguage /\ [][NextLanguage]_vars

\* ---------------------------------------------------- speaker labelling
\* The segments of a list to label.  Times are in milliseconds, a text is
\* given by its length.
MaxSpeakerSegments == 6
MaxSpeakers == 4
GapLimitMs == 3000
LengthDiffLimit == 50

\* How a segment follows its predecessor: at both thresholds (a gap of 3
\* seconds, a text 50 characters longer), after a gap just above 3 seconds,
\* or with a text 51 characters longer or shorter.
Followings == {"close", "gap", "length"}
Following(prev, how) ==
  LET gap == IF how = "close" THEN GapLimitMs ELSE IF how = "gap" THEN GapLimitMs + 1 ELSE 0
      length == IF how = "close" THEN prev.length + LengthDiffLimit
                ELSE IF how = "gap" THEN prev.length
                ELSE IF prev.length > LengthDiffLimit + 1 THEN prev.length - (LengthDiffLimit + 1)
                ELSE prev.length + LengthDiffLimit + 1
  IN [start |-> prev.end + gap, end |-> prev.end + gap + SegmentLengthMs, length |-> length, speaker |-> 0]
RECURSIVE SpeakerSegments(_, _)
SpeakerSegments(hows, k) ==
  IF k = 0 THEN << >>
  ELSE IF k = 1 THEN <<[start |-> 0, end |-> SegmentLengthMs, length |-> 10, speaker |-> 0]>>
  ELSE LET before == SpeakerSegments(hows, k - 1)
       IN Append(before, Following(before[k - 1], hows[k - 1]))

Abs(x) == IF x < 0 THEN 0 - x ELSE x

\* if (gap > 3 || textLengthDiff > 50)
SpeakerMayChangeAtThreshold(gap, textLengthDiff) == gap >= GapLimitMs \/ textLengthDiff > LengthDiffLimit
SpeakerMayChange(gap, textLengthDiff) == gap > GapLimitMs \/ textLengthDiff > LengthDiffLimit

\* The forEach of simulateSpeakerDetection from segment index on, with the
\* outcomes of Math.random() > 0.7 given per segment; speaker k stands for
\* the label `Speaker ${k}`.
RECURSIVE LabelFrom(_, _, _, _, _)
LabelFrom(segments, index, speakerCount, accepted, speakerSegments) ==
  IF index > Len(segments) THEN speakerSegments
  ELSE LET segment == segments[index]
           switch == /\ index > 1
                     /\ SpeakerMayChange(segment.start - segments[index - 1].end,
                                         Abs(segment.length - segments[index - 1].length))
                     /\ accepted[index]
           count == IF switch THEN Min(speakerCount + 1, MaxSpeakers) ELSE speakerCount
       IN LabelFrom(segments, index + 1, count, accepted,
                    Append(speakerSegments, [segment EXCEPT !.speaker = count]))

simulateSpeakerDetection(segments, accepted) ==
  IF Len(segments) = 0 THEN segments ELSE LabelFrom(segments, 1, 1, accepted, << >>)

InitSpeakers ==
  /\ plan = "none"
  /\ totalSegments = 0
  /\ state = "Received"
  /\ PoolIdle
  /\ tempFiles = NoFiles
  /\ processedFile = ""
  /\ configIndex = 0
  /\ response = 0
  /\ lateResponses = 0
  /\ cancelled = "no"
  /\ timedOut = FALSE
  /\ NoLogs
  /\ download = NoDownload
  /\ prepare = NoPrepare
  /\ prompting = NoPrompting
  /\ post = NoPost
  /\ cleanup = NoCleanup
  /\ naming = NoNaming
  /\ detect = NoDetect
  /\ \E enabled \in BOOLEAN, n \in 0..MaxSpeakerSegments :
       \E hows \in [1..(IF n = 0 THEN 0 ELSE n - 1) -> Followings] :
         diarize = [NoDiarize EXCEPT !.enabled = enabled, !.segments = SpeakerSegments(hows, n), !.phase = "checked"]

\* if (enableSpeakerDiarization && correctedTranscription.segments)
\*   correctedTranscription.segments = await simulateSpeakerDetection(...)
LabelSpeakers(accepted) ==
  /\ diarize.phase = "checked"
  /\ diarize.enabled
  /\ Len(accepted) = Len(diarize.segments)
  /\ diarize' = [diarize EXCEPT !.phase = "labelled", !.accepted = accepted,
                   !.labelled = simulateSpeakerDetection(diarize.segments, accepted)]
  /\ UNCHANGED exceptDiarize

\* Labelling is not enabled: the segments go on as they are.
SkipSpeakers ==
  /\ diarize.phase = "checked"
  /\ ~diarize.enabled
  /\ diarize' = [diarize EXCEPT !.phase = "skipped", !.labelled = diarize.segments]
  /\ UNCHANGED exceptDiarize

NextSpeakers ==
  \/ \E n \in 0..MaxSpeakerSegments : \E accepted \in [1..n -> BOOLEAN] : LabelSpeakers(accepted)
  \/ SkipSpeakers

SpecSpeakers == InitSpeakers /\ [][NextSpeakers]_vars

\* =================================================================== claims
Merged == state \in {"PostProcessing", "Done"} /\ plan = "segments"

Active(i) == seg[i].phase \in {"calling", "sleeping"}

\* The slices (0-based) that have a result, and the result of slice i.
SucceededSlices == {results[k].index : k \in 1..Len(results)}
AnswerOf(i) ==
  results[CHOOSE k \in 1..Len(results) : results[k].index = i].transcription

\* What a provider segment of slice i is expected to become.
Shifted(s, i) ==
  [start |-> (IF s.start < 0 THEN 0 ELSE s.start) + i * 300,
   end |-> (IF s.end < 0 THEN 0 ELSE s.end) + i * 300,
   text |-> s.text]

\* The segments of the successful slices i..n-1, slice after slice.
RECURSIVE InSliceOrder(_, _)
InSliceOrder(i, n) ==
  IF i >= n THEN << >>
  ELSE (IF i \in SucceededSlices
        THEN [k \in 1..Len(AnswerOf(i).segments) |-> Shifted(AnswerOf(i).segments[k], i)]
        ELSE << >>) \o InSliceOrder(i + 1, n)

\* The results in index order, built from the set of results.
IndexOrdered ==
  LET order == SeqBy([i \in SucceededSlices |-> i], SucceededSlices)
  IN [k \in 1..Len(order) |->
        [index |-> order[k], error |-> FALSE, transcription |-> AnswerOf(order[k])]]

\* C1: during a segmented job at most 3 segments are active at any moment,
\* a segment being active from its first provider call until it has
\* succeeded or failed for good, backoff sleeps included.
C1_AtMostThreeActive ==
  plan = "segments" => Cardinality({i \in Segs : Active(i)}) <= 3

C1_Witness ==
  /\ Cardinality({i \in Segs : Active(i)}) = 3
  /\ \E i \in Segs : seg[i].phase = "sleeping"
  /\ Len(waiters) >= 2

\* C2: the merged segment list is in slice-index order, each slice's
\* segments in provider order, and the merged output is the one obtained
\* from the results taken in index order, whatever the order in which the
\* provider requests completed.
C2_MergeInIndexOrder ==
  Merged =>
    /\ finalTranscription.segments = InSliceOrder(0, totalSegments)
    /\ finalTranscription = MergeResults(IndexOrdered, totalSegments)

C2_Witness ==
  /\ Merged /\ state = "Done"
  /\ Len(results) >= 3
  /\ \E k \in 1..(Len(results) - 1) : results[k].index > results[k + 1].index

\* C3: segments are dispatched in index order: for i < j the first provider
\* call of segment i is issued before the first provider call of segment j.
C3_DispatchInIndexOrder ==
  \A k, l \in 1..Len(dispatchLog) : k < l => dispatchLog[k] < dispatchLog[l]

C3_Witness ==
  /\ Len(dispatchLog) >= 5
  /\ Len(results) >= 2
  /\ results[1].index = 2
  /\ results[2].index = 0

\* C4: a segment that used up all its attempts does not abort the job: the
\* job does not fail, every segment has been dispatched and has settled by
\* the time of the merge, and the merged output holds the content of every
\* successful slice and nothing for a failed one.
C4_FailedSegmentDoesNotAbort ==
  (plan = "segments" /\ \E i \in 1..totalSegments : seg[i].phase = "exhausted") =>
    /\ state # "Failed"
    /\ Merged =>
         /\ \A j \in 1..totalSegments : j \in Range(dispatchLog) /\ Settled(j)
         /\ \A j \in 1..totalSegments :
              (seg[j].phase = "succeeded") <=> (j - 1 \in SucceededSlices)
         /\ finalTranscription.segments = InSliceOrder(0, totalSegments)
         /\ totalSegments > 1 =>
              {finalTranscription.text[k].n :
                 k \in {m \in 1..Len(finalTranscription.text) :
                          finalTranscription.text[m].kind = "divider"}}
                = {j \in 1..totalSegments : seg[j].phase = "succeeded"}

C4_Witness ==
  /\ state = "Done" /\ plan = "segments"
  /\ \E i, j \in 1..totalSegments :
       i < j /\ seg[i].phase = "exhausted" /\ seg[j].phase = "succeeded"


\* Number of merged segments, and of text tokens, that come from the
\* successful slices below i.
SegmentsOf(i) == Len(AnswerOf(i).segments)
TokensOf(i) ==
  (IF totalSegments > 1 THEN 1 ELSE 0)
    + (IF SegmentsOf(i) > 0 THEN SegmentsOf(i)
       ELSE IF AnswerOf(i).text # "" THEN 1 ELSE 0)
    + 1

RECURSIVE BaseOf(_)
BaseOf(i) ==
  IF i <= 0 THEN 0
  ELSE BaseOf(i - 1) + (IF (i - 1) \in SucceededSlices THEN SegmentsOf(i - 1) ELSE 0)

RECURSIVE TextBaseOf(_)
TextBaseOf(i) ==
  IF i <= 0 THEN 0
  ELSE TextBaseOf(i - 1) + (IF (i - 1) \in SucceededSlices THEN TokensOf(i - 1) ELSE 0)

\* seq without the count elements that follow position from.
Without(seq, from, count) ==
  [k \in 1..(Len(seq) - count) |-> IF k <= from THEN seq[k] ELSE seq[k + count]]

ResultsWithout(i) == SelectSeq(results, LAMBDA e : e.index # i)

\* C5: for every slice index i and every provider segment (start, end) of
\* that slice, the merged segment has start = max(0, start) + i * 300 and
\* end = max(0, end) + i * 300, whatever durations the provider reports and
\* whichever other slices failed.
C5_FixedOffsetPerSlice ==
  Merged =>
    /\ Len(finalTranscription.segments) = BaseOf(totalSegments)
    /\ \A i \in SucceededSlices : \A k \in 1..SegmentsOf(i) :
         LET m == finalTranscription.segments[BaseOf(i) + k]
             s == AnswerOf(i).segments[k]
         IN /\ m.start = (IF s.start > 0 THEN s.start ELSE 0) + i * 300
            /\ m.end = (IF s.end > 0 THEN s.end ELSE 0) + i * 300

C5_Witness ==
  /\ Merged /\ totalSegments >= 3
  /\ seg[1].phase = "exhausted"
  /\ \E i \in SucceededSlices :
       /\ i >= 1
       /\ AnswerOf(i).duration # 300
       /\ \E k \in 1..SegmentsOf(i) : AnswerOf(i).segments[k].start < 0
  /\ \E i \in SucceededSlices : AnswerOf(i).duration > 300

\* C6: the merged transcript of a job planned with N slices has duration
\* N * 300, also when slices failed after all retries.
C6_DurationIsPlannedLength ==
  Merged => finalTranscription.duration = totalSegments * 300

\* C7: replacing the result of one slice by a failure changes the merged
\* output only by removing that slice's segments and text lines; nothing
\* else in the merged output changes.
C7_FailureOnlyRemovesSlice ==
  Merged =>
    \A i \in SucceededSlices :
      MergeResults(ResultsWithout(i), totalSegments)
        = [finalTranscription EXCEPT
             !.segments = Without(@, BaseOf(i), SegmentsOf(i)),
             !.text = Without(@, TextBaseOf(i), TokensOf(i))]

\* C8: in a merged transcript built from more than one slice, every segment
\* of slice i has start >= i * 300 and end <= (i + 1) * 300, and start times
\* never decrease along the merged list, for every set of timestamps the
\* provider may return.
C8_WithinSliceAndMonotone ==
  (Merged /\ totalSegments > 1) =>
    /\ \A i \in SucceededSlices : \A k \in 1..SegmentsOf(i) :
         LET m == finalTranscription.segments[BaseOf(i) + k]
         IN m.start >= i * 300 /\ m.end <= (i + 1) * 300
    /\ \A k \in 1..(Len(finalTranscription.segments) - 1) :
         finalTranscription.segments[k].start
           <= finalTranscription.segments[k + 1].start

\* C9: the totalSegments recorded on the merged transcript, and the
\* metadata.totalSegments of its JSON rendering, equal the planned number of
\* slices, also when slices failed, the last one included.
C9_TotalSegmentsIsPlanned ==
  Merged =>
    /\ finalTranscription.totalSegments = totalSegments
    /\ JSONMetadataTotalSegments(finalTranscription) = totalSegments

\* C10: the provider is called at most 5 times in the single-file path and
\* at most 3 times per segment; an error that may be retried propagates only
\* after exactly 5 (respectively 3) calls.
C10_AttemptLimits ==
  /\ [](/\ single.calls <= 5
        /\ \A i \in Segs : seg[i].calls <= 3
        /\ single.phase = "exhausted" => single.calls = 5)
  /\ [][\A i \in Segs :
          (seg[i].phase # "exhausted" /\ seg'[i].phase = "exhausted")
            => (seg[i].phase = "calling" /\ seg[i].calls = 3)]_vars

C10_Witness == single.phase = "exhausted" /\ single.calls = 5


\* The classes the provider answers that are never retried.
NonRetryable(e) == e.status \in {401, 402, 403}

\* C11: in the single-file path, once a provider call has answered 401, 402
\* or 403 the job is Failed, no backoff delay is pending and no provider call
\* was made after that answer (every call made has failed, the last one with
\* that answer); answered on the first attempt, exactly one call was made.
C11_NonRetryableFailsFast ==
  (plan = "single" /\ NonRetryable(lastError)) =>
     /\ state = "Failed"
     /\ single.phase = "fatal"
     /\ single.delay = 0
     /\ single.calls = single.retryCount
     /\ (single.retryCount = 1 => single.calls = 1)

C11_Witness ==
  /\ plan = "single" /\ lastError.status = 402
  /\ state = "Failed" /\ single.calls = 1

\* A segment whose provider call was answered 401, 402 or 403.
SomeSegmentFatal == plan = "segments" /\ \E i \in 1..totalSegments : seg[i].phase = "fatal"

\* C12: in the segmented path, once a segment's provider call has answered
\* 401, 402 or 403 the job does not end Done, and from then on no segment is
\* dispatched that had not been dispatched before.
C12_SegmentNonRetryableFailsJob ==
  /\ [](SomeSegmentFatal => state # "Done")
  /\ [][SomeSegmentFatal => dispatchLog' = dispatchLog]_vars

\* The wait the backoff rule gives after the i-th failed attempt, in ms.
BackoffBase(e) == IF e.errno = "ECONNRESET" \/ e.status = 429 THEN 5000 ELSE 2000
BackoffWait(base, i) == IF base * Pow2(i - 1) < 30000 THEN base * Pow2(i - 1) ELSE 30000

\* C13: while a retry loop waits after its i-th failed attempt, the wait is
\* min(base * 2^(i-1), 30 s): in the single-file loop with the base of the
\* error just caught (5 s for a connection reset or a rate limit, else 2 s),
\* in a segment's loop with one of the two bases; no wait exceeds 30 s.
C13_BackoffDelay ==
  /\ single.phase = "sleeping" =>
        /\ single.delay = BackoffWait(BackoffBase(lastError), single.retryCount)
        /\ single.delay <= 30000
  /\ \A i \in Segs : seg[i].phase = "sleeping" =>
        /\ seg[i].delay \in {BackoffWait(5000, seg[i].retryCount),
                             BackoffWait(2000, seg[i].retryCount)}
        /\ seg[i].delay <= 30000

\* The fourth failure of a connection reset: 5 s * 8 = 40 s, capped.
C13_Witness ==
  /\ single.phase = "sleeping" /\ single.retryCount = 4
  /\ lastError.errno = "ECONNRESET" /\ single.delay = 30000

\* C14: when a job ends Done none of its intermediate files exists: the
\* original, the compressed file and any file left by a failed codec
\* attempt, the segment files and the segment directory.
C14_NoFilesWhenDone == state = "Done" => tempFiles = NoFiles

\* C15: when a job ends Failed, on whichever error path, none of its
\* intermediate files exists.
C15_NoFilesWhenFailed == state = "Failed" => tempFiles = NoFiles

\* C16: the buffer of every episodeId holds at most 500 entries in every
\* state, however many entries have been appended.
C16_AtMost500Entries ==
  \A id \in DOMAIN transcriptionLogs : Len(transcriptionLogs[id]) <= 500

C16_Witness ==
  \E j \in LogJobs :
    /\ logJobs[j].appended > 500
    /\ Len(PollLogs(transcriptionLogs, logJobs[j].episodeId)) = 500

\* The entries of job j in the buffer that a poll of its episodeId returns.
OwnEntries(j) ==
  SelectSeq(PollLogs(transcriptionLogs, logJobs[j].episodeId), LAMBDA e : e.job = j)

Terminal(j) == logJobs[j].phase \in {"done", "failed"}

\* C17: for every job that has ended, Done or Failed, the deletion timer it
\* armed is pending or its entries are gone from the map.
C17_TerminalJobLogIsRemoved ==
  \A j \in LogJobs :
    Terminal(j) => \/ \E t \in timers : t.by = j
                   \/ OwnEntries(j) = << >>

\* C18: for any two jobs, a poll of one never returns an entry of the
\* other, and while a job runs every entry it has appended under its
\* episodeId is still in its buffer, whatever the other job starts or
\* whichever timer fires.
C18_JobLogsIsolated ==
  \A a \in LogJobs :
    /\ \A b \in LogJobs \ {a} :
         logJobs[b].phase \in {"running", "done", "failed"} =>
           \A k \in 1..Len(PollLogs(transcriptionLogs, logJobs[b].episodeId)) :
              PollLogs(transcriptionLogs, logJobs[b].episodeId)[k].job # a
    /\ logJobs[a].phase = "running" =>
         \A n \in 2..logJobs[a].appended :
            n > logJobs[a].appended - 500 =>
              \E k \in 1..Len(OwnEntries(a)) : OwnEntries(a)[k].n = n

\* The client has given the job up while segments were being transcribed.
CancelledInFlight == cancelled = "InFlight"

\* C19: once a job is cancelled while segments are in flight, no provider
\* call is made any more (no segment is dispatched, no attempt is repeated),
\* the job ends neither Done nor Failed but Cancelled, and when it has ended
\* its temp files are deleted.
C19_CancelStopsTheJob ==
  /\ [](CancelledInFlight =>
          /\ state \notin {"PostProcessing", "Done", "Failed"}
          /\ ~Running => tempFiles = NoFiles)
  /\ [][CancelledInFlight =>
          /\ dispatchLog' = dispatchLog
          /\ \A i \in Segs : seg'[i].calls <= seg[i].calls]_vars

\* C20: once the request deadline has elapsed while the job was running,
\* the timeout answer is the only outcome: the pipeline does no further
\* work, the job reports neither Done nor Failed, and no second response is
\* attempted.
C20_TimeoutIsFinal ==
  /\ [](timedOut =>
          /\ response = 504
          /\ lateResponses = 0
          /\ state \notin {"Done", "Failed"})
  /\ [][timedOut => UNCHANGED <<state, poolVars>>]_vars

\* ---------------------------------------------------------------- C21
Delivered(result) == \E k \in 1..Len(download.callbacks) : download.callbacks[k] = result
RedirectsFollowed == Len(download.requests) - 1

\* C21: a download follows at most 5 redirects: it never issues more than 6
\* requests (so a redirect cycle ends), it reports too many redirects only
\* after having followed exactly 5, and a chain of up to 5 redirects that
\* ends in a 200 response yields the bytes.
C21_AtMostFiveRedirects ==
  /\ Len(download.requests) <= maxRedirects + 1
  /\ download.redirectCount <= maxRedirects + 1
  /\ Delivered("tooManyRedirects") => RedirectsFollowed = 5 /\ download.phase = "closed"
  /\ Delivered("buffer") => RedirectsFollowed <= 5 /\ ~Delivered("tooManyRedirects")
  /\ download.phase \in {"requesting", "receiving"} => RedirectsFollowed = download.redirectCount

C21_Witness ==
  /\ Delivered("tooManyRedirects")
  /\ Len(download.requests) = 6
  /\ download.requests[3] = download.requests[1]

C21_WitnessFiveRedirects ==
  /\ Delivered("buffer")
  /\ RedirectsFollowed = 5

\* ---------------------------------------------------------------- C22
Planned == prepare.phase = "planned"
SubmittedSize ==
  IF prepare.processedAudio.file = "original" THEN prepare.size ELSE prepare.compressedSize

\* C22: the plan is the original as a single file exactly when the original
\* is at most 25 MiB; otherwise the compressed file as a single file exactly
\* when that is at most 25 MiB; otherwise segments of 300 seconds cut from
\* the compressed file.  So a single file submitted is never above 25 MiB.
C22_PlanBySizes ==
  Planned =>
    LET a == prepare.processedAudio
    IN /\ (a.type = "single" /\ a.file = "original") <=> prepare.size <= 25 * MiB
       /\ (a.type = "single" /\ a.file = "compressed") <=>
            (prepare.size > 25 * MiB /\ prepare.compressedSize <= 25 * MiB)
       /\ (a.type = "segments" /\ a.file = "compressed" /\ a.segmentDuration = 300) <=>
            (prepare.size > 25 * MiB /\ prepare.compressedSize > 25 * MiB)
       /\ a.type = "single" => SubmittedSize <= 25 * MiB

C22_Witness ==
  /\ Planned
  /\ prepare.size = 25 * MiB + 1
  /\ prepare.compressedSize = 25 * MiB
  /\ prepare.processedAudio.type = "single"

\* ---------------------------------------------------------------- C23
\* The upload handler has decided on the size of the upload: it rejected
\* it for being too large or let it pass its size checks.
SizeDecided ==
  /\ prepare.handler = "upload"
  /\ prepare.phase \notin {"received", "parsed"}
  /\ prepare.reason \notin {"parse", "empty"}
RejectedForSize == prepare.phase = "rejected" /\ prepare.reason = "tooLarge"

\* C23: an upload is admitted if and only if its size is at most 32 MiB: a
\* larger one is rejected with 413 before any pipeline work, and none of
\* 32 MiB or less is rejected for being too large.
C23_AdmittedUpTo32MiB ==
  SizeDecided =>
    /\ prepare.size > 32 * MiB => RejectedForSize /\ prepare.status = 413
    /\ prepare.size <= 32 * MiB => ~RejectedForSize

\* ---------------------------------------------------------------- C24
PromptLength == prompting.optimizedPrompt.kw + prompting.optimizedPrompt.sep + prompting.optimizedPrompt.base
TrimmedKeywords == Trim(prompting.keywords).body

\* C24: the prompt is at most 400 characters long; when keywords are
\* present it begins with the trimmed keywords, complete unless they alone
\* exceed 400 characters, the base prompt being cut before they are.
C24_PromptWithinLimit ==
  prompting.phase = "built" =>
    /\ PromptLength <= 400
    /\ TrimmedKeywords > 0 =>
         /\ prompting.optimizedPrompt.kw = Min(TrimmedKeywords, 400)
         /\ prompting.optimizedPrompt.kw < TrimmedKeywords => prompting.optimizedPrompt.base = 0

\* ---------------------------------------------------------------- C25..C30
\* HH:MM:SS,mmm read back as a time in milliseconds, and the cues of an
\* output read back as (start, end, text).
ParseTime(f) == ((f.h * 60 + f.m) * 60 + f.s) * 1000 + f.ms
ParseCues(output) ==
  [k \in 1..Len(output.cues) |->
     Sg(ParseTime(output.cues[k].start), ParseTime(output.cues[k].end), output.cues[k].text)]
JsonEntries(output) ==
  [k \in 1..Len(output.cues) |-> Sg(output.cues[k].start, output.cues[k].end, output.cues[k].text)]
\* The segments of a transcript as (start, end, trimmed text).
Projected(transcription) ==
  [k \in 1..Len(transcription.segments) |->
     Sg(transcription.segments[k].start, transcription.segments[k].end, TrimText(transcription.segments[k].text))]
Rendered == post.phase \in {"rendered", "rerendered", "done"}

\* C25: the SRT, VTT and JSON outputs of one rendering have the same entries:
\* the same number, with the same start, end and text, also for a transcript
\* whose segment list is empty or missing.
C25_SameEntriesInEveryFormat ==
  Rendered =>
    /\ ParseCues(post.formats.srt) = ParseCues(post.formats.vtt)
    /\ ParseCues(post.formats.srt) = JsonEntries(post.formats.json)

\* C26: the SRT and the VTT output parsed back give the segments of the
\* transcript handed to the render step, as (start, end, text): none is
\* dropped, none is merged with a neighbour, the order is kept.
C26_RoundTrip ==
  post.phase = "rendered" =>
    /\ ParseCues(post.formats.srt) = Projected(post.handed)
    /\ ParseCues(post.formats.vtt) = Projected(post.handed)

\* C27: rendering a second time, on the transcript object already rendered
\* once, gives the same TXT, SRT and VTT outputs, also when the transcript
\* has no segments.
C27_RenderIdempotent ==
  post.phase = "rerendered" =>
    /\ post.formats.txt = post.first.txt
    /\ post.formats.srt = post.first.srt
    /\ post.formats.vtt = post.first.vtt

\* The spell-check returned a corrected transcript made from an answer
\* whose correctedSegments differ at most in number and times.
SpellCheckSucceeded ==
  /\ post.phase = "checked"
  /\ ~post.spellCheckThrew
  /\ post.answer \in {"noErrors", "absent", "same", "fewer", "more", "retimed"}

\* C28: after a successful spell-check the transcript has as many segments
\* as before and each keeps its start, end and words, whatever segments the
\* language model returned.
C28_SpellCheckKeepsSegments ==
  SpellCheckSucceeded =>
    /\ Len(post.transcription.segments) = Len(post.given.segments)
    /\ \A k \in 1..Len(post.given.segments) :
         k <= Len(post.transcription.segments) =>
           /\ post.transcription.segments[k].start = post.given.segments[k].start
           /\ post.transcription.segments[k].end = post.given.segments[k].end
           /\ post.transcription.segments[k].words = post.given.segments[k].words

\* The spell-check failed: no model answered, or the answer was not JSON or
\* was malformed (correctedSegments not a list, or segments whose text is
\* null).
SpellCheckFailed ==
  \/ post.answer \in {"providerError", "unparsable", "notArray"}
  \/ post.answer = "nullText" /\ post.given.segments # << >>

\* C29: a failed spell-check does not fail the job: the transcript that goes
\* on to rendering is the merged one, unchanged, and the job does not fail
\* on it.
C29_SpellCheckFailureIsSwallowed ==
  SpellCheckFailed =>
    /\ post.phase = "checked" => post.transcription = post.given
    /\ post.failedFormat # "segmentation"

\* C30: when the generator of one format raises, the other formats are
\* rendered and returned and the job does not fail.
C30_OneFormatFailsAlone ==
  post.failedFormat \in Range(OutputFormats) =>
    /\ post.phase # "failed"
    /\ \A f \in Range(OutputFormats) \ {post.failedFormat} : post.formats[f].rendered

\* Some deletion the cleanup tried was refused.
DeleteFailed == \E k \in 1..Len(cleanup.attempted) : cleanup.attempted[k] \in cleanup.failing

\* C31: cleanup is best-effort on every exit path: when the deletion of one
\* intermediate file fails, the failure is logged, every other intermediate
\* file of the job and the segment directory are still attempted, and the
\* outcome of the job (Done answers 200, Failed an error status) is the one
\* it had before the cleanup.
C31_CleanupIsBestEffort ==
  (cleanup.phase = "left" /\ DeleteFailed) =>
    /\ \A f \in FilesOfPlan(cleanup.type, cleanup.file, cleanup.n) : f \in Range(cleanup.attempted)
    /\ \A f \in cleanup.failing : f \in Range(cleanup.attempted) => f \in cleanup.warned
    /\ (cleanup.outcome = "Done") = (cleanup.status = 200)

\* The last n entries of a buffer, in their order.
LastN(s, n) == IF Len(s) <= n THEN s ELSE SubSeq(s, Len(s) - n + 1, Len(s))

\* The entries from..to of job j in the order it appended them.
EntriesOf(j, from, to) == [k \in 1..(IF to < from THEN 0 ELSE to - from + 1) |-> Entry(j, from + k - 1)]

\* Job j is the only job that has entered a handler.
RunsAlone(j) == logJobs[j].phase # "idle" /\ \A o \in LogJobs \ {j} : logJobs[o].phase = "idle"

\* The buffer the step appended to, before and after the step.
BufferBefore(id) == IF id \in DOMAIN transcriptionLogs THEN transcriptionLogs[id] ELSE << >>
AppendedTo(id) == id \in DOMAIN transcriptionLogs' /\ transcriptionLogs'[id] # BufferBefore(id)

C33_PathsArePerJob ==
  \A i, j \in NamingJobs : i # j => naming.jobs[i].paths \cap naming.jobs[j].paths = {}

\* The step in which the last codec of the cascade fails.
CascadeExhausted ==
  /\ state = "Compressing"
  /\ configIndex + 1 >= Len(codecExt)
  /\ \E partial \in BOOLEAN : CodecFails(partial)

\* C34: when the input exceeds the provider limit and every codec of the
\* cascade fails, the job is rejected with the 413 answer that carries the
\* manual-compression suggestions, not with a generic internal error.
C34_TranscoderUnavailableIs413 ==
  [][CascadeExhausted => (state' = "Failed" /\ (response = 0 => response' = 413))]_vars

\* The language the first answered slice reported, "" when it reported none
\* or no slice was answered.
RECURSIVE FirstReported(_, _)
FirstReported(slices, k) ==
  IF k > Len(slices) THEN ""
  ELSE IF slices[k] # "failed" THEN slices[k]
  ELSE FirstReported(slices, k + 1)

\* C35: for a segmented job the language of the merged transcript is the
\* language the provider reported for the first successful slice whenever
\* that slice reported one, and is derived from the text by the Latin/CJK
\* count heuristic only when it reported none.
C35_LanguageOfFirstSlice ==
  detect.phase = "done" =>
    LET first == FirstReported(detect.slices, 1)
    IN detect.language = IF first # "" THEN first ELSE TextLanguage(detect.counts)

Occurrences(x, sq) == Cardinality({k \in 1..Len(sq) : sq[k] = x})

\* C37: in a segmented job every planned segment is handed to the worker
\* pool exactly once (until then it waits for a free place) and contributes
\* at most one result: at the merge every segment has been attempted, and
\* the merged output holds the content of every answered slice once and
\* nothing else.
C37_EverySegmentOnce ==
  (plan = "segments" /\ state # "Preparing") =>
    /\ \A i \in 1..totalSegments : Occurrences(i, dispatchLog) + Occurrences(i, waiters) = 1
    /\ \A i \in 1..totalSegments : (seg[i].phase # "idle") = (i \in Range(dispatchLog))
    /\ \A k, l \in 1..Len(results) : k # l => results[k].index # results[l].index
    /\ \A k \in 1..Len(results) : seg[results[k].index + 1].phase = "succeeded"
    /\ Merged =>
         /\ \A i \in 1..totalSegments : Occurrences(i, dispatchLog) = 1 /\ Settled(i)
         /\ finalTranscription.segments = InSliceOrder(0, totalSegments)
         /\ \A i \in 1..totalSegments :
              Occurrences(Divider(i), finalTranscription.text)
                = (IF i - 1 \in SucceededSlices /\ totalSegments > 1 THEN 1 ELSE 0)

\* Five segments were merged: two of them had to wait for a place, one
\* failed for good and the answers came in another order than the slices.
C37_Witness ==
  /\ Merged
  /\ totalSegments = 5
  /\ Len(results) = 4
  /\ \E k \in 1..3 : results[k].index > results[k + 1].index

\* C38: provided every provider call returns or fails and every backoff
\* wait elapses, the worker pool terminates: every planned segment is
\* eventually dispatched and eventually settles, no call stays blocked on
\* the concurrency limit for ever, and the merge is eventually reached
\* whatever the mix of successes and failures.
C38_PoolTerminates ==
  <>(/\ Merged
     /\ waiters = << >>
     /\ activePromises = {}
     /\ \A i \in 1..totalSegments : i \in Range(dispatchLog) /\ Settled(i))

\* The merge was reached by a plan of four segments of which one had waited
\* for a place and two failed for good.
C38_Witness ==
  /\ Merged
  /\ totalSegments = 4
  /\ Len(dispatchLog) = 4
  /\ Len(results) = 2

\* C39: the merge and the deletion of the segment files start only after
\* every dispatched segment has settled: while a provider request for a
\* segment is in flight or waits for its retry, the job has not merged, no
\* segment file is deleted and the segment directory is there.
C39_SegmentsOutliveTheirRequests ==
  \A i \in Segs :
    Active(i) =>
      /\ state = "Transcribing"
      /\ finalTranscription = EmptyMerged
      /\ tempFiles.segments = 1..totalSegments
      /\ tempFiles.segmentDir

\* A job of two segments has ended, one of them failed for good after its
\* retries, and the segment files and their directory are deleted.
C39_Witness ==
  /\ state = "Done"
  /\ plan = "segments"
  /\ totalSegments = 2
  /\ Len(results) = 1
  /\ \E i \in 1..2 : seg[i].phase = "exhausted"
  /\ tempFiles.segments = {}
  /\ ~tempFiles.segmentDir

\* C40: whatever the network events of a download (redirects, response,
\* data, end, request error, response error, timeout and the destroy of the
\* request), downloadAudio calls its completion callback exactly once: not
\* before the download is over, once when it is, with an error or with the
\* buffer.
DownloadResults ==
  {"buffer", "http", "tooManyRedirects", "requestError", "responseError", "timeout"}

C40_CallbackExactlyOnce ==
  /\ Len(download.callbacks) = (IF download.phase = "closed" THEN 1 ELSE 0)
  /\ \A k \in 1..Len(download.callbacks) : download.callbacks[k] \in DownloadResults
====
